---------------------------- MODULE Spec2Model ----------------------------
(***************************************************************************)
(* A model of fimg (mihirballari/fimg): the recipient resolver of          *)
(* engine/core.py and engine/edit_list.py, the list picker / contact       *)
(* browser of ui/tui.py and the send flow of ui/tui.py.                    *)
(*                                                                         *)
(* Text is modelled as a sequence of characters, each character a string.  *)
(* The characters "e'" and "E'" stand for U+00E9 and U+00C9 (e / E with an *)
(* acute accent, which NFKD decomposes) and "o/" for U+00F8 (which has no  *)
(* decomposition and is dropped by the ASCII encoding).                    *)
(***************************************************************************)
EXTENDS Integers, Sequences, FiniteSets, TLC

VARIABLES
    \* ---- core.resolve_tokens (engine/core.py:160-181)
    contacts,    \* the roster given to resolve_tokens
    tokens,      \* the token list given to resolve_tokens
    rpc,         \* position in resolve_tokens: "start", "loop", "done"
    tokIdx,      \* number of tokens the for loop has consumed
    chosen,      \* the local list chosen
    missing,     \* the local list missing
    resolved,    \* the first component of the returned pair
    sel,         \* history: for each consumed token, the roster index of the
                 \* contact appended to chosen, 0 when appended to missing
    \* ---- the terminal and the open picker (ui/tui.py)
    termRows,    \* stdscr.getmaxyx()[0]
    termCols,    \* stdscr.getmaxyx()[1]
    pk,          \* locals of the running list_picker / contact_browser call
    \* ---- TuiApp.send_flow (ui/tui.py:705-767)
    flow,        \* locals of the running send_flow call and of the widgets it
                 \* runs, with what the delivery primitive was called with
    \* ---- TuiApp.fuzzy_score / fuzzy_match_score called on their own
    fz,          \* the arguments and the returned values of the calls
    \* ---- TuiApp.list_flow with list_add_flow and list_remove_flow
    ed,          \* locals of the running list flow and of the widgets it runs,
                 \* with what core.write_contacts was called with
    disk,        \* the rows of the roster files under lists/, by label
    \* ---- TuiApp.make_overlay called by the widgets
    ov,          \* the widget drawn last, overlay_rect and the window created
    \* ---- core.write_contacts run statement by statement
    wr,          \* its position, the temporary file and the roster file
    \* ---- re.sub(r"[^\d+]", "", raw) in load_contacts and list_add_flow
    nm,          \* the raw number string and the Contact.number built from it
    \* ---- edit_list.resolve_tokens called on its own
    er,          \* the tokens, the roster and the returned (chosen, missing)
    \* ---- TuiApp.input_line called by prompt_field
    inp,         \* max_len, buf, pos and the returned value
    \* ---- TuiApp.run: the landing loop and the SIGWINCH handler
    rz,          \* position in the loop, needs_redraw, running, menu_idx and
                 \* the action called last
    \* ---- test_send.send_with_spinner: the main thread and reader
    sp           \* both positions, the process, the out dictionary and the
                 \* returned (ok, detail)

resolverVars == <<contacts, tokens, rpc, tokIdx, chosen, missing, resolved, sel>>

uiVars == <<termRows, termCols, pk, flow, fz, ed, disk, ov>>

stepVars == <<wr, nm, er, inp, rz, sp>>

vars == <<resolverVars, uiVars, stepVars>>

\* None of write_contacts, the number cleaning, edit_list.resolve_tokens,
\* input_line, run and send_with_spinner is being followed
StepsIdle ==
    /\ wr = [pc |-> "none"]
    /\ nm = [pc |-> "none"]
    /\ er = [pc |-> "none"]
    /\ inp = [pc |-> "none"]
    /\ rz = [pc |-> "none"]
    /\ sp = [pc |-> "none"]

-----------------------------------------------------------------------------
(* Bounds of the model *)

MaxContacts == 3
MaxTokens == 2
\* Longest filter text typed into a picker
MaxQuery == 2

-----------------------------------------------------------------------------
(* Text helpers *)

UpperChars == <<"A","B","C","D","E","F","G","H","I","J","K","L","M","N","O","P","Q","R","S","T","U","V","W","X","Y","Z">>
LowerChars == <<"a","b","c","d","e","f","g","h","i","j","k","l","m","n","o","p","q","r","s","t","u","v","w","x","y","z">>

\* str.lower() on one character
LowerChar(c) ==
    IF \E i \in DOMAIN UpperChars : UpperChars[i] = c
    THEN LowerChars[CHOOSE i \in DOMAIN UpperChars : UpperChars[i] = c]
    ELSE IF c = "E'" THEN "e'" ELSE c

\* str.lower()
Lower(s) == [i \in DOMAIN s |-> LowerChar(s[i])]

\* unicodedata.normalize("NFKD", s).encode("ascii", "ignore").decode("ascii")
\* on one character: the ASCII characters that are left of it
FoldChar(c) ==
    IF c = "e'" THEN <<"e">>
    ELSE IF c = "E'" THEN <<"E">>
    ELSE IF c = "o/" THEN <<>>
    ELSE <<c>>

RECURSIVE AsciiFold(_)
AsciiFold(s) ==
    IF s = <<>> THEN <<>> ELSE FoldChar(Head(s)) \o AsciiFold(Tail(s))

\* re.sub(r"[.,]", " ", s)
DotCommaToSpace(s) == [i \in DOMAIN s |-> IF s[i] \in {".", ","} THEN " " ELSE s[i]]

\* The pieces of s between separator characters, empty pieces dropped:
\* str.split() with seps = {" "}, re.split(r"[,\s;/]+", s) filtered by a.strip()
RECURSIVE SplitOn(_, _, _)
SplitOn(s, seps, cur) ==
    IF s = <<>> THEN (IF cur = <<>> THEN <<>> ELSE <<cur>>)
    ELSE IF Head(s) \in seps
         THEN (IF cur = <<>> THEN <<>> ELSE <<cur>>) \o SplitOn(Tail(s), seps, <<>>)
         ELSE SplitOn(Tail(s), seps, Append(cur, Head(s)))

Words(s) == SplitOn(s, {" "}, <<>>)

\* " ".join(words)
RECURSIVE JoinSpace(_)
JoinSpace(ws) ==
    IF ws = <<>> THEN <<>>
    ELSE IF Len(ws) = 1 THEN ws[1]
    ELSE ws[1] \o <<" ">> \o JoinSpace(Tail(ws))

\* str.strip()
RECURSIVE Strip(_)
Strip(s) ==
    IF s = <<>> THEN s
    ELSE IF Head(s) = " " THEN Strip(Tail(s))
    ELSE IF s[Len(s)] = " " THEN Strip(SubSeq(s, 1, Len(s) - 1))
    ELSE s

\* core._norm / edit_list._norm
norm(s) == JoinSpace(Words(DotCommaToSpace(Lower(AsciiFold(s)))))

\* core.first_name
first_name(full) == IF norm(full) = <<>> THEN <<>> ELSE Words(norm(full))[1]

\* t in s, for strings
IsSubstring(t, s) ==
    \E i \in 0..(Len(s) - Len(t)) : SubSeq(s, i + 1, i + Len(t)) = t

\* p.startswith(t)
StartsWith(p, t) == Len(t) <= Len(p) /\ SubSeq(p, 1, Len(t)) = t

\* x in seq, for tuples and lists
InSeq(x, seq) == \E i \in DOMAIN seq : seq[i] = x

-----------------------------------------------------------------------------
(* Contacts *)

\* The alias column: split on [,\s;/]+, lower-cased, empty pieces dropped
parse_aliases(alias_raw) ==
    IF alias_raw = <<>> THEN <<>>
    ELSE LET parts == SplitOn(alias_raw, {",", " ", ";", "/"}, <<>>)
         IN  [i \in DOMAIN parts |-> Lower(parts[i])]

\* core.make_contact, and the Contact built per row by core.load_contacts
make_contact(name, number, alias_raw) ==
    [name    |-> Strip(name),
     first   |-> first_name(name),
     number  |-> number,
     name_l  |-> norm(name),
     aliases |-> parse_aliases(alias_raw)]

\* The contacts rosters are drawn from
ContactPool ==
    { make_contact(<<"J","o","r","d","a","n"," ","L","e","e">>, <<"+","1">>, <<>>),
      make_contact(<<"B","a","y"," ","M","i","c","h","a","e","l","s">>, <<"+","1","5","5","5","0","0","0","1">>, <<"b","a","y">>),
      make_contact(<<"A","n","n","a"," ","L","e","e">>, <<"+","3">>, <<>>),
      make_contact(<<"A","n","n"," ","S","m","i","t","h">>, <<"+","4">>, <<"A","S",","," ","j",".","r">>),
      make_contact(<<"B","a","y","a","r","d"," ","J","o","s","e'">>, <<"+","1","5","5","5","0","0","0","1">>, <<>>) }

\* The tokens token lists are drawn from
TokenPool ==
    { <<"b","a","y">>, <<"A","n","n">>, <<"j","l">>, <<"x","a","v","i","e","r">>,
      <<"A","L","L">>, <<".">>, <<"j","o">> }

\* Lists of at most n elements of S
SeqsUpTo(S, n) == UNION { [1..k -> S] : k \in 0..n }

\* Rosters: lists of distinct pool contacts (two of them share a number)
Rosters ==
    { r \in SeqsUpTo(ContactPool, MaxContacts) :
        \A i, j \in DOMAIN r : i # j => r[i] # r[j] }

TokenLists == SeqsUpTo(TokenPool, MaxTokens)

-----------------------------------------------------------------------------
(* edit_list.py: the (tier, tiebreak) match score *)

\* edit_list.load_contacts: first_l, last_l, inits derived from name_l
first_l(c) == IF c.name_l = <<>> THEN <<>> ELSE Words(c.name_l)[1]
last_l(c) == IF c.name_l = <<>> THEN <<>> ELSE Words(c.name_l)[Len(Words(c.name_l))]

\* edit_list._initials
initials(name_norm) ==
    LET parts == Words(name_norm) IN [i \in DOMAIN parts |-> parts[i][1]]

\* edit_list.score_match: <<tier, tiebreak>>
score_match(tok, c) ==
    LET t == norm(tok)
        n == Len(c.name)
    IN  IF t = <<>> THEN <<-1, 0>>
        ELSE IF InSeq(t, c.aliases) THEN <<100, n>>
        ELSE IF t = c.name_l THEN <<95, n>>
        ELSE IF t = first_l(c) \/ t = last_l(c) THEN <<90, n>>
        ELSE IF Len(t) <= 3 /\ t = initials(c.name_l) THEN <<85, n>>
        ELSE IF \E i \in DOMAIN Words(c.name_l) : StartsWith(Words(c.name_l)[i], t) THEN <<70, n>>
        ELSE IF IsSubstring(t, c.name_l) THEN <<50, n>>
        ELSE <<-1, 0>>

-----------------------------------------------------------------------------
(* core.py: dedup and resolve_tokens *)

\* core.dedup with an identity test it does not make: every contact kept
dedup_keep_all(people) == people

\* core.dedup keeping the last contact of each number instead of the first
dedup_keep_last(people) ==
    LET kept == { i \in DOMAIN people :
                    \A j \in DOMAIN people : j > i => people[j].number # people[i].number }
        F[i \in 0..Len(people)] ==
            IF i = 0 THEN <<>>
            ELSE IF i \in kept THEN Append(F[i - 1], people[i]) ELSE F[i - 1]
    IN  F[Len(people)]

\* core.dedup: the first contact of each number, in order
RECURSIVE dedup_from(_, _, _)
dedup_from(people, out, seen) ==
    IF people = <<>> THEN out
    ELSE IF Head(people).number \notin seen
         THEN dedup_from(Tail(people), Append(out, Head(people)), seen \cup {Head(people).number})
         ELSE dedup_from(Tail(people), out, seen)

dedup(people) == dedup_from(people, <<>>, {})

\* any(t.lower() == "all" for t in tokens), comparing without lower()
has_all_exact(toks) == \E i \in DOMAIN toks : toks[i] = <<"a","l","l">>

\* any(t.lower() == "all" for t in tokens)
has_all(toks) == \E i \in DOMAIN toks : Lower(toks[i]) = <<"a","l","l">>

\* The roster indices of a list comprehension [c for c in contacts if P(c)]
\* are kept as a set; its first element is the least index.
AliasHits(t, cs) == { i \in DOMAIN cs : InSeq(t, cs[i].aliases) }

PrefixHit(t, c) == \E k \in DOMAIN Words(c.name_l) : StartsWith(Words(c.name_l)[k], t)

Hits(t, cs) == { i \in DOMAIN cs : IsSubstring(t, cs[i].name_l) \/ PrefixHit(t, cs[i]) }

Starts(t, cs) == { i \in Hits(t, cs) : PrefixHit(t, cs[i]) }

First(S) == CHOOSE i \in S : \A j \in S : i <= j

\* One pass of the for loop with the alias test left out
select_for_no_alias(tok, cs) ==
    LET t == norm(tok)
    IN  IF Hits(t, cs) = {} THEN 0
        ELSE IF Starts(t, cs) # {} THEN First(Starts(t, cs))
        ELSE First(Hits(t, cs))

\* One pass of the for loop: the roster index of the contact appended to
\* chosen, 0 when the token is appended to missing
select_for(tok, cs) ==
    LET t == norm(tok)
    IN  IF AliasHits(t, cs) # {} THEN First(AliasHits(t, cs))
        ELSE IF Hits(t, cs) = {} THEN 0
        ELSE IF Starts(t, cs) # {} THEN First(Starts(t, cs))
        ELSE First(Hits(t, cs))

ResolveInit ==
    /\ contacts \in Rosters
    /\ tokens \in TokenLists
    /\ rpc = "start"
    /\ tokIdx = 0
    /\ chosen = <<>>
    /\ missing = <<>>
    /\ resolved = <<>>
    /\ sel = <<>>
    /\ termRows = 24
    /\ termCols = 80
    /\ pk = [state |-> "closed"]
    /\ flow = [pc |-> "none"]
    /\ fz = [pc |-> "none"]
    /\ ed = [pc |-> "none"]
    /\ disk = <<>>
    /\ ov = [pc |-> "none"]
    /\ StepsIdle

\* line 161-162: the early return for "all"
ResolveAll ==
    /\ rpc = "start"
    /\ has_all(tokens)
    /\ resolved' = dedup(contacts)
    /\ missing' = <<>>
    /\ rpc' = "done"
    /\ UNCHANGED <<contacts, tokens, tokIdx, chosen, sel>>
    /\ UNCHANGED <<uiVars, stepVars>>

\* line 163-164: entering the loop
ResolveEnter ==
    /\ rpc = "start"
    /\ ~has_all(tokens)
    /\ rpc' = "loop"
    /\ UNCHANGED <<contacts, tokens, tokIdx, chosen, missing, resolved, sel>>
    /\ UNCHANGED <<uiVars, stepVars>>

\* line 165-180: one iteration of the loop
ResolveToken ==
    /\ rpc = "loop"
    /\ tokIdx < Len(tokens)
    /\ LET tok == tokens[tokIdx + 1]
           k == select_for(tok, contacts)
       IN  /\ IF k = 0
              THEN missing' = Append(missing, tok) /\ chosen' = chosen
              ELSE chosen' = Append(chosen, contacts[k]) /\ missing' = missing
           /\ sel' = Append(sel, k)
    /\ tokIdx' = tokIdx + 1
    /\ UNCHANGED <<contacts, tokens, rpc, resolved>>
    /\ UNCHANGED <<uiVars, stepVars>>

\* line 181: return dedup(chosen), missing
ResolveReturn ==
    /\ rpc = "loop"
    /\ tokIdx = Len(tokens)
    /\ resolved' = dedup(chosen)
    /\ rpc' = "done"
    /\ UNCHANGED <<contacts, tokens, tokIdx, chosen, missing, sel>>
    /\ UNCHANGED <<uiVars, stepVars>>

ResolveNext == ResolveAll \/ ResolveEnter \/ ResolveToken \/ ResolveReturn

SpecResolve == ResolveInit /\ [][ResolveNext]_vars

-----------------------------------------------------------------------------
(* Vocabulary of the resolver claims *)

\* The elements of seq at the indices of I, in order
RECURSIVE PickIdx(_, _, _)
PickIdx(seq, I, i) ==
    IF i > Len(seq) THEN <<>>
    ELSE (IF i \in I THEN <<seq[i]>> ELSE <<>>) \o PickIdx(seq, I, i + 1)

\* Some token is "all", whatever its case
AnyTokenIsAll == \E i \in DOMAIN tokens : Lower(tokens[i]) = <<"a","l","l">>

\* The tier of the ladder alias > full name > first/last word > initials >
\* word prefix > substring at which contact c matches tok (-1: no match)
Tier(tok, c) == score_match(tok, c)[1]

\* The best tier any contact of the roster reaches for tok
BestTier(tok) ==
    IF contacts = <<>> THEN -1
    ELSE LET T == { Tier(tok, contacts[a]) : a \in DOMAIN contacts }
         IN  CHOOSE m \in T : \A x \in T : x <= m

\* The indices of the roster's contacts that are the first of their number
FirstOfNumber == { a \in DOMAIN contacts :
                     \A b \in DOMAIN contacts : b < a => contacts[b].number # contacts[a].number }

\* The consumed tokens that selected a contact whose number no earlier token selected
FirstSelection ==
    { i \in DOMAIN sel :
        /\ sel[i] # 0
        /\ \A j \in DOMAIN sel :
              (j < i /\ sel[j] # 0) => contacts[sel[j]].number # contacts[sel[i]].number }

\* The contacts selected by the consumed tokens, one per token
Selected == [i \in DOMAIN sel |-> IF sel[i] = 0 THEN <<>> ELSE contacts[sel[i]]]

-----------------------------------------------------------------------------
(* Claims about core.resolve_tokens *)

\* C3: the resolved list returned by core.resolve_tokens never holds two
\* contacts with the same number, also when the roster itself does.
C3_ResolvedNumbersDistinct ==
    rpc = "done" =>
        \A i, j \in DOMAIN resolved : i # j => resolved[i].number # resolved[j].number

\* C3 witness: two different selected contacts share a number and the call returned.
C3_Witness ==
    /\ rpc = "done"
    /\ resolved # <<>>
    /\ \E i, j \in DOMAIN chosen : i # j /\ chosen[i] # chosen[j] /\ chosen[i].number = chosen[j].number

\* C4: when some token is "all" (any case), the result is every contact of the
\* roster that is the first of its number, in roster order, and missing is empty,
\* whatever the other tokens are.
C4_AllReturnsRoster ==
    (rpc = "done" /\ AnyTokenIsAll) =>
        /\ resolved = PickIdx(contacts, FirstOfNumber, 1)
        /\ missing = <<>>

\* C4 witness: "ALL" beside a token that matches nothing, on a roster that
\* repeats a number.
C4_Witness ==
    /\ rpc = "done"
    /\ AnyTokenIsAll
    /\ \E i \in DOMAIN tokens : ~(Lower(tokens[i]) = <<"a","l","l">>) /\ BestTier(tokens[i]) < 0
    /\ \E i \in DOMAIN tokens : tokens[i] # <<"a","l","l">> /\ Lower(tokens[i]) = <<"a","l","l">>
    /\ FirstOfNumber # DOMAIN contacts
    /\ resolved # <<>>

\* C5: every token that some contact matches selects a contact that matches it
\* at the best tier any contact of the roster reaches; so a contact whose full
\* name, first word or last word equals the token is selected rather than an
\* earlier contact that only has a word starting with it. (Tokens whose best
\* tier is the initials tier are the subject of C7 and are left to it.)
C5_BestTierSelected ==
    \A i \in DOMAIN sel :
        (BestTier(tokens[i]) >= 0 /\ BestTier(tokens[i]) # 85) =>
            /\ sel[i] # 0
            /\ Tier(tokens[i], contacts[sel[i]]) = BestTier(tokens[i])

C7_InitialsResolve ==
    \A i \in DOMAIN sel : \A a \in DOMAIN contacts :
        ( /\ Len(norm(tokens[i])) \in {2, 3}
          /\ norm(tokens[i]) = initials(contacts[a].name_l) )
        => /\ sel[i] # 0
           /\ ( ( /\ BestTier(tokens[i]) = 85
                  /\ \A b \in DOMAIN contacts :
                        b < a => norm(tokens[i]) # initials(contacts[b].name_l) )
                => sel[i] = a )

\* C8: without an "all" token, missing is exactly the tokens that no contact
\* matches at any tier, in input order and original spelling.
C8_MissingExact ==
    (rpc = "done" /\ ~AnyTokenIsAll) =>
        missing = PickIdx(tokens, { i \in DOMAIN tokens : BestTier(tokens[i]) < 0 }, 1)

\* C9: resolved lists the selected contacts in the order their number was first
\* selected; a token selecting an already selected number adds nothing and is
\* not in missing.
C9_FirstSeenOrder ==
    (rpc = "done" /\ ~AnyTokenIsAll) =>
        /\ resolved = PickIdx(Selected, FirstSelection, 1)
        /\ \A i \in DOMAIN sel :
              (sel[i] # 0 /\ i \notin FirstSelection) => ~InSeq(tokens[i], missing)

\* C9 witness: a later token selected another contact with an already selected number.
C9_Witness ==
    /\ rpc = "done"
    /\ ~AnyTokenIsAll
    /\ \E i, j \in DOMAIN sel :
          /\ j < i /\ sel[j] # 0 /\ sel[i] # 0 /\ sel[i] # sel[j]
          /\ contacts[sel[i]].number = contacts[sel[j]].number
          /\ resolved = <<contacts[sel[j]]>>

-----------------------------------------------------------------------------
(* ui/tui.py: the fuzzy matcher *)

\* The value None of an int | None score
None == -1

\* The characters of the model in code point order, for str comparison
CodeOrder ==
    <<" ","+",",","-",".","/","0","1","2","3","4","5","6","7","8","9",";">>
    \o UpperChars \o LowerChars \o <<"E'","e'","o/">>

Code(c) == CHOOSE i \in DOMAIN CodeOrder : CodeOrder[i] = c

\* a < b for str
StrLess(a, b) ==
    \E k \in 1..(Len(b)) :
        /\ \A q \in 1..(k - 1) : q <= Len(a) /\ a[q] = b[q]
        /\ (k > Len(a) \/ Code(a[k]) < Code(b[k]))

\* hay.find(ch): the search that forgets where the last match was
FindFromStart(hay, ch, start) ==
    LET P == { q \in 1..Len(hay) : hay[q] = ch }
    IN  IF P = {} THEN -1 ELSE (CHOOSE q \in P : \A r \in P : q <= r) - 1

\* hay.find(ch, start): the 0-based position of the first ch at or after
\* start, -1 when there is none
Find(hay, ch, start) ==
    LET P == { q \in (start + 1)..Len(hay) : hay[q] = ch }
    IN  IF P = {} THEN -1 ELSE (CHOOSE q \in P : \A r \in P : q <= r) - 1

\* fuzzy_score, the loop over the characters of needle
RECURSIVE fuzzy_walk(_, _, _, _)
fuzzy_walk(needle, hay, last, score) ==
    IF needle = <<>> THEN score
    ELSE LET idx == Find(hay, Head(needle), last + 1)
         IN  IF idx = -1 THEN None
             ELSE fuzzy_walk(Tail(needle), hay, idx,
                             score + (IF idx = last + 1 THEN 3 ELSE 1)
                                   + (IF idx = 0 THEN 2 ELSE 0))

\* fuzzy_score without hay = hay.lower()
fuzzy_score_hay_as_is(needle, hay) ==
    IF needle = <<>> THEN 0
    ELSE LET n == Lower(needle)
             s == fuzzy_walk(n, hay, -1, 0)
         IN  IF s = None THEN None
             ELSE IF IsSubstring(n, hay) THEN s + 4 + Len(n)
             ELSE s

\* TuiApp.fuzzy_score
fuzzy_score(needle, hay) ==
    IF needle = <<>> THEN 0
    ELSE LET n == Lower(needle)
             h == Lower(hay)
             s == fuzzy_walk(n, h, -1, 0)
         IN  IF s = None THEN None
             ELSE IF IsSubstring(n, h) THEN s + 4 + Len(n)
             ELSE s

\* The loop of fuzzy_match_score skipping the words that have no score
RECURSIVE fuzzy_sum_skips(_, _, _)
fuzzy_sum_skips(parts, hay, total) ==
    IF parts = <<>> THEN total
    ELSE fuzzy_sum_skips(Tail(parts), hay,
                         total + (IF fuzzy_score(Head(parts), hay) = None
                                  THEN 0 ELSE fuzzy_score(Head(parts), hay)))

\* fuzzy_match_score, the loop over the words of the query
RECURSIVE fuzzy_sum(_, _, _)
fuzzy_sum(parts, hay, total) ==
    IF parts = <<>> THEN total
    ELSE LET score == fuzzy_score(Head(parts), hay)
         IN  IF score = None THEN None
             ELSE fuzzy_sum(Tail(parts), hay, total + score)

\* TuiApp.fuzzy_match_score
fuzzy_match_score(query, hay) ==
    IF query = <<>> THEN 0
    ELSE fuzzy_sum(Words(Lower(query)), hay, 0)

-----------------------------------------------------------------------------
(* ui/tui.py: list_picker and contact_browser *)

\* A sort key <<number, text>> ordered as a Python tuple
KeyLess(a, b) == a[1] < b[1] \/ (a[1] = b[1] /\ StrLess(a[2], b[2]))

\* sorted(seq, key=...) / list.sort(key=...): stable, keys[i] the key of seq[i]
\* (the arguments are bound once, as values, by the set constructor)
StableSort(seq0, keys0) ==
    CHOOSE sorted \in
        { [q \in 1..Len(seq) |->
              seq[CHOOSE i \in 1..Len(seq) :
                    Cardinality({ j \in 1..Len(seq) :
                                    \/ KeyLess(keys[j], keys[i])
                                    \/ (~KeyLess(keys[i], keys[j]) /\ j < i) }) + 1 = q]]
          : seq \in {seq0}, keys \in {keys0} } : TRUE

\* The .csv files that may exist in LISTS_DIR
AllCsv == "all.csv"
BrothersCsv == "brothers.csv"
PledgesCsv == "pledges.csv"
ZetaCsv == "zeta.csv"

\* core.list_entries, for the set of .csv files that exist in LISTS_DIR
list_entries(files) ==
    LET fromMap ==
            (IF AllCsv \in files THEN <<[label |-> <<"a","l","l">>, path |-> AllCsv]>> ELSE <<>>)
            \o (IF BrothersCsv \in files
                THEN <<[label |-> <<"a","c","t","i","v","e","s">>, path |-> BrothersCsv],
                       [label |-> <<"b","r","o","t","h","e","r","s">>, path |-> BrothersCsv]>>
                ELSE <<>>)
            \o (IF PledgesCsv \in files THEN <<[label |-> <<"p","l","e","d","g","e","s">>, path |-> PledgesCsv]>> ELSE <<>>)
        others ==
            IF ZetaCsv \in files THEN <<[label |-> <<"z","e","t","a">>, path |-> ZetaCsv]>> ELSE <<>>
        entries == fromMap \o others
    IN  IF entries = <<>> THEN <<[label |-> <<"a","l","l">>, path |-> AllCsv]>> ELSE entries

\* The overlay height the picker asks for: min(12, rows - 4) / min(20, rows - 4)
PickerHeight(kind, rows) ==
    IF kind = "list_picker"
    THEN (IF 12 < rows - 4 THEN 12 ELSE rows - 4)
    ELSE (IF 20 < rows - 4 THEN 20 ELSE rows - 4)

\* max_rows = height - 4
MaxRows(kind, rows) == PickerHeight(kind, rows) - 4

\* The identity key of a candidate: the label of an entry, the number of a contact
ItemKey(kind, item) == IF kind = "list_picker" THEN item.label ELSE item.number

\* The lower-cased name a candidate is ordered by
ItemName(kind, item) == IF kind = "list_picker" THEN Lower(item.label) ELSE Lower(item.name)

\* The text the filter is matched against
ItemHay(kind, item) ==
    IF kind = "list_picker" THEN item.label
    ELSE Lower(item.name \o <<" ">> \o item.number \o <<" ">> \o JoinSpace(item.aliases))

\* sorted_contacts = sorted(contacts, key=lambda c: c.name.lower()); entries as given
CandidatesOf(kind, items) ==
    IF kind = "list_picker" THEN items
    ELSE StableSort(items, [i \in DOMAIN items |-> <<0, Lower(items[i].name)>>])

\* The elements of seq whose index is in I, in order
Keep(seq, I) ==
    LET F[i \in 0..Len(seq)] ==
            IF i = 0 THEN <<>>
            ELSE IF i \in I THEN Append(F[i - 1], seq[i]) ELSE F[i - 1]
    IN  F[Len(seq)]

\* ranked, before the sort: the candidates with a score, paired with it
Ranked(kind, cand, query) ==
    CHOOSE out \in
        { Keep([i \in DOMAIN cand |-> [score |-> scores[i], item |-> cand[i]]],
               { i \in DOMAIN cand : scores[i] # None })
          : scores \in { [i \in DOMAIN cand |-> fuzzy_match_score(query, ItemHay(kind, cand[i]))] } }
        : TRUE

\* The list filtered of a frame
FilteredOf(kind, cand, query) ==
    IF query = <<>> THEN cand
    ELSE CHOOSE out \in
            { [i \in DOMAIN sorted |-> sorted[i].item]
              : sorted \in
                  { StableSort(ranked, [i \in DOMAIN ranked |->
                                          <<0 - ranked[i].score, ItemName(kind, ranked[i].item)>>])
                    : ranked \in {Ranked(kind, cand, query)} } }
            : TRUE

Max(a, b) == IF a >= b THEN a ELSE b
Min(a, b) == IF a <= b THEN a ELSE b

\* The top of the while loop with the two adjustments of offset to idx left out
FrameNoScroll(p, filtered, max_rows) ==
    LET n == Len(filtered)
        idx1 == IF p.idx >= n THEN Max(0, n - 1) ELSE p.idx
        max_offset == Max(0, n - max_rows)
        off1 == IF p.offset > max_offset THEN max_offset ELSE p.offset
    IN  [p EXCEPT !.filtered = filtered, !.idx = idx1, !.offset = off1]

\* The top of the while loop: filtered, idx and offset as the frame is drawn
FrameOf(p, filtered, max_rows) ==
    LET n == Len(filtered)
        idx1 == IF p.idx >= n THEN Max(0, n - 1) ELSE p.idx
        max_offset == Max(0, n - max_rows)
        off1 == IF p.offset > max_offset THEN max_offset ELSE p.offset
        off2 == IF idx1 < off1 THEN idx1 ELSE off1
        off3 == IF idx1 >= off2 + max_rows THEN idx1 - max_rows + 1 ELSE off2
    IN  [p EXCEPT !.filtered = filtered, !.idx = idx1, !.offset = off3]

\* The next drawn frame of the picker whose locals are p0, on a terminal of
\* rows rows
Frame(p0, rows) ==
    CHOOSE out \in
        { FrameOf(p, filtered, MaxRows(p.kind, rows))
          : p \in {p0}, filtered \in {FilteredOf(p0.kind, p0.cands, p0.query)} } : TRUE

\* The locals at the first frame of list_picker(title, entries, multi) or
\* contact_browser(title, contacts, selectable)
OpenPicker(kind, multi, items, rows) ==
    Frame([kind |-> kind, multi |-> multi, items |-> items,
           cands |-> CandidatesOf(kind, items),
           query |-> <<>>, idx |-> 0, offset |-> 0, selected |-> {},
           filtered |-> <<>>, state |-> "frame", result |-> [kind |-> "pending"]], rows)

Return(p, value) == [p EXCEPT !.state = "returned", !.result = value]

\* The candidates whose key is selected, in candidate order
SelectedItems(p) ==
    Keep(p.cands, { i \in DOMAIN p.cands : ItemKey(p.kind, p.cands[i]) \in p.selected })

\* KEY_UP, "k", without the max(0, ...)
OnUpUnclamped(p) == [p EXCEPT !.idx = p.idx - 1]

\* KEY_UP, "k"
OnUp(p) == [p EXCEPT !.idx = Max(0, p.idx - 1)]

\* KEY_DOWN, "j"
OnDown(p) == [p EXCEPT !.idx = Min(Max(0, Len(p.filtered) - 1), p.idx + 1)]

\* Enter (10, 13)
OnEnter(p) ==
    IF p.kind = "list_picker"
    THEN IF p.filtered = <<>> THEN p
         ELSE IF p.multi
              THEN IF p.selected = {}
                   THEN Return(p, [kind |-> "list", items |-> <<p.filtered[p.idx + 1]>>])
                   ELSE Return(p, [kind |-> "list", items |-> SelectedItems(p)])
              ELSE Return(p, [kind |-> "item", item |-> p.filtered[p.idx + 1]])
    ELSE IF ~p.multi THEN Return(p, [kind |-> "none"])
         ELSE IF p.selected = {} THEN [p EXCEPT !.state = "notice"]
         ELSE Return(p, [kind |-> "list", items |-> SelectedItems(p)])

\* Escape (27)
OnEsc(p) == Return(p, [kind |-> "none"])

\* Backspace (KEY_BACKSPACE, 127, 8)
OnBackspace(p) ==
    [p EXCEPT !.query = SubSeq(p.query, 1, Len(p.query) - 1), !.idx = 0, !.offset = 0]

\* Space (32), adding the highlighted key and never removing one
OnSpaceAddOnly(p) ==
    IF p.multi /\ p.filtered # <<>>
    THEN [p EXCEPT !.selected = p.selected \cup {ItemKey(p.kind, p.filtered[p.idx + 1])}]
    ELSE p

\* Space (32)
OnSpace(p) ==
    IF p.multi /\ p.filtered # <<>>
    THEN LET key == ItemKey(p.kind, p.filtered[p.idx + 1])
         IN  [p EXCEPT !.selected = IF key \in p.selected
                                    THEN p.selected \ {key}
                                    ELSE p.selected \cup {key}]
    ELSE p

\* A printable character other than space, "j" and "k"
OnChar(p, ch) == [p EXCEPT !.query = Append(p.query, ch), !.idx = 0, !.offset = 0]

\* The keys of the model that reach the last test of the loop
FilterChars == {"a", "n", "l"}

\* Terminal sizes <<rows, cols>> of the model
TermSizes == { <<24, 80>>, <<10, 80>>, <<9, 40>>, <<7, 80>> }

\* The candidate lists contact_browser is opened with
BrowserRosters ==
    { << make_contact(<<"A","n","t","h","o","n","y">>, <<"+","3">>, <<>>),
         make_contact(<<"A","n","n">>, <<"+","1">>, <<"a","l">>),
         make_contact(<<"A","n","n","a">>, <<"+","2">>, <<>>) >>,
      << make_contact(<<"A","n","n","a">>, <<"+","2">>, <<>>),
         make_contact(<<"A","n","n">>, <<"+","1">>, <<>>),
         make_contact(<<"a","l">>, <<"+","2">>, <<>>),
         make_contact(<<"A","n","t","h","o","n","y">>, <<"+","3">>, <<>>) >> }

\* The sets of .csv files list_picker's entries are listed from
FileSets == { {}, {AllCsv, BrothersCsv}, {AllCsv, BrothersCsv, PledgesCsv, ZetaCsv} }

PickerInit ==
    /\ \E size \in TermSizes : termRows = size[1] /\ termCols = size[2]
    /\ \E multi \in BOOLEAN :
          \/ \E files \in FileSets : pk = OpenPicker("list_picker", multi, list_entries(files), termRows)
          \/ \E roster \in BrowserRosters : pk = OpenPicker("contact_browser", multi, roster, termRows)
    /\ contacts = <<>>
    /\ tokens = <<>>
    /\ rpc = "idle"
    /\ tokIdx = 0
    /\ chosen = <<>>
    /\ missing = <<>>
    /\ resolved = <<>>
    /\ sel = <<>>
    /\ flow = [pc |-> "none"]
    /\ fz = [pc |-> "none"]
    /\ ed = [pc |-> "none"]
    /\ disk = <<>>
    /\ ov = [pc |-> "none"]
    /\ StepsIdle

PickerUp ==
    /\ pk.state = "frame"
    /\ pk' = Frame(OnUp(pk), termRows)
    /\ UNCHANGED <<termRows, termCols, flow, fz, ed, disk, ov, resolverVars, stepVars>>

PickerDown ==
    /\ pk.state = "frame"
    /\ pk' = Frame(OnDown(pk), termRows)
    /\ UNCHANGED <<termRows, termCols, flow, fz, ed, disk, ov, resolverVars, stepVars>>

PickerEnter ==
    /\ pk.state = "frame"
    /\ \E q \in {OnEnter(pk)} : pk' = (IF q.state = "frame" THEN Frame(q, termRows) ELSE q)
    /\ UNCHANGED <<termRows, termCols, flow, fz, ed, disk, ov, resolverVars, stepVars>>

PickerEsc ==
    /\ pk.state = "frame"
    /\ pk' = OnEsc(pk)
    /\ UNCHANGED <<termRows, termCols, flow, fz, ed, disk, ov, resolverVars, stepVars>>

PickerBackspace ==
    /\ pk.state = "frame"
    /\ pk' = Frame(OnBackspace(pk), termRows)
    /\ UNCHANGED <<termRows, termCols, flow, fz, ed, disk, ov, resolverVars, stepVars>>

PickerSpace ==
    /\ pk.state = "frame"
    /\ pk' = Frame(OnSpace(pk), termRows)
    /\ UNCHANGED <<termRows, termCols, flow, fz, ed, disk, ov, resolverVars, stepVars>>

PickerChar ==
    /\ pk.state = "frame"
    /\ Len(pk.query) < MaxQuery
    /\ \E ch \in FilterChars : pk' = Frame(OnChar(pk, ch), termRows)
    /\ UNCHANGED <<termRows, termCols, flow, fz, ed, disk, ov, resolverVars, stepVars>>

\* KEY_RESIZE handled as input_line handles it: handle_resize, return None
PickerResizeCancels ==
    /\ pk.state = "frame"
    /\ \E size \in TermSizes :
          /\ termRows' = size[1]
          /\ termCols' = size[2]
          /\ pk' = OnEsc(pk)
    /\ UNCHANGED <<flow, fz, ed, disk, ov, resolverVars, stepVars>>

\* KEY_RESIZE: handle_resize, continue; the next frame reads the new size
PickerResize ==
    /\ pk.state = "frame"
    /\ \E size \in TermSizes :
          /\ termRows' = size[1]
          /\ termCols' = size[2]
          /\ pk' = Frame(pk, size[1])
    /\ UNCHANGED <<flow, fz, ed, disk, ov, resolverVars, stepVars>>

\* show_message("No selection", ...): any key but KEY_RESIZE closes the notice
NoticeKey ==
    /\ pk.state = "notice"
    /\ pk' = Frame([pk EXCEPT !.state = "frame"], termRows)
    /\ UNCHANGED <<termRows, termCols, flow, fz, ed, disk, ov, resolverVars, stepVars>>

\* show_message: KEY_RESIZE redraws the notice
NoticeResize ==
    /\ pk.state = "notice"
    /\ \E size \in TermSizes : termRows' = size[1] /\ termCols' = size[2]
    /\ UNCHANGED <<pk, flow, fz, ed, disk, ov, resolverVars, stepVars>>

PickerNext ==
    \/ PickerUp \/ PickerDown \/ PickerEnter \/ PickerEsc \/ PickerBackspace
    \/ PickerSpace \/ PickerChar \/ PickerResize \/ NoticeKey \/ NoticeResize

SpecPicker == PickerInit /\ [][PickerNext]_vars

-----------------------------------------------------------------------------
(* Claims about list_picker and contact_browser *)

\* C10 as stated: in every drawn frame, for every terminal size,
\* offset <= idx < offset + visibleRows with visibleRows = height - 4.
C10_ScrollWindowAnySize ==
    pk.state = "frame" =>
        /\ pk.offset <= pk.idx
        /\ pk.idx < pk.offset + (PickerHeight(pk.kind, termRows) - 4)

\* C10 amended: in every drawn frame whose overlay has at least one list row
\* (height - 4 >= 1), offset <= idx < offset + (height - 4).
C10_ScrollWindow ==
    (pk.state = "frame" /\ PickerHeight(pk.kind, termRows) - 4 >= 1) =>
        /\ pk.offset <= pk.idx
        /\ pk.idx < pk.offset + (PickerHeight(pk.kind, termRows) - 4)

\* C10 witness: a frame that has scrolled: more candidates than rows, the
\* highlighted one on the last visible row, under a filter.
C10_Witness ==
    /\ pk.state = "frame"
    /\ PickerHeight(pk.kind, termRows) - 4 >= 1
    /\ pk.query # <<>>
    /\ pk.offset > 0
    /\ pk.idx = pk.offset + (PickerHeight(pk.kind, termRows) - 4) - 1
    /\ Len(pk.filtered) > PickerHeight(pk.kind, termRows) - 4


-----------------------------------------------------------------------------
(* ui/tui.py: send_flow and the widgets it runs *)

\* Runs of send_flow in one behaviour
MaxFlows == 1
\* Longest text typed into input_line
MaxInput == 3
\* Longest text typed into input_multiline
MaxMessage == 2

\* str.replace(pat, rep)
RECURSIVE Replace(_, _, _)
Replace(s, pat, rep) ==
    IF Len(s) < Len(pat) THEN s
    ELSE IF SubSeq(s, 1, Len(pat)) = pat
         THEN rep \o Replace(SubSeq(s, Len(pat) + 1, Len(s)), pat, rep)
         ELSE <<Head(s)>> \o Replace(Tail(s), pat, rep)

\* re.sub(r"\n[ \t]+", "\n", msg)
RECURSIVE DropIndent(_, _)
DropIndent(s, afterNewline) ==
    IF s = <<>> THEN <<>>
    ELSE IF afterNewline /\ Head(s) \in {" ", "\t"} THEN DropIndent(Tail(s), TRUE)
    ELSE <<Head(s)>> \o DropIndent(Tail(s), Head(s) = "\n")

\* core.normalize_message
normalize_message(msg) ==
    LET r1 == Replace(msg, <<"#","#","#","#","#","#","#","#">>, <<"\n","\n">>)
        r2 == Replace(r1, <<"#","#","#","#">>, <<"\n","\n">>)
        r3 == Replace(r2, <<"#","#">>, <<"\n">>)
        r4 == Replace(r3, <<"|","|","|","|">>, <<"\n","\n">>)
        r5 == Replace(r4, <<"|","|">>, <<"\n">>)
        r6 == Replace(r5, <<"\\","\\","n">>, <<"\n">>)
        r7 == Replace(r6, <<"\\","n">>, <<"\n">>)
    IN  DropIndent(r7, FALSE)

\* str.strip(), for text that may hold newlines and tabs
RECURSIVE StripWs(_)
StripWs(s) ==
    IF s = <<>> THEN s
    ELSE IF Head(s) \in {" ", "\n", "\t"} THEN StripWs(Tail(s))
    ELSE IF s[Len(s)] \in {" ", "\n", "\t"} THEN StripWs(SubSeq(s, 1, Len(s) - 1))
    ELSE s

\* core.tokenize_names, for text without quotes and backslashes
tokenize_names(names_raw) == SplitOn(names_raw, {",", " ", "\t", "\n"}, <<>>)

\* core.resolve_tokens: the for loop
RECURSIVE resolve_loop(_, _, _, _)
resolve_loop(toks, cs, ch, ms) ==
    IF toks = <<>> THEN [resolved |-> dedup(ch), missing |-> ms]
    ELSE LET k == select_for(Head(toks), cs)
         IN  IF k = 0
             THEN resolve_loop(Tail(toks), cs, ch, Append(ms, Head(toks)))
             ELSE resolve_loop(Tail(toks), cs, Append(ch, cs[k]), ms)

\* core.resolve_tokens
resolve_tokens(toks, cs) ==
    IF has_all(toks) THEN [resolved |-> dedup(cs), missing |-> <<>>]
    ELSE resolve_loop(toks, cs, <<>>, <<>>)

\* The rows of the .csv files of the model: name, number and alias columns
RosterRows(path) ==
    IF path = AllCsv
    THEN << [name |-> <<"A","n","n">>, number |-> <<"+","1","-","2">>, alias |-> <<"a","l">>],
            [name |-> <<"B","o">>, number |-> <<"(","2",")">>, alias |-> <<>>] >>
    ELSE IF path = BrothersCsv
    THEN << [name |-> <<"B","o"," ","B">>, number |-> <<"2">>, alias |-> <<>>],
            [name |-> <<>>, number |-> <<"9">>, alias |-> <<>>],
            [name |-> <<"C","y">>, number |-> <<"+","3">>, alias |-> <<>>] >>
    ELSE <<>>

\* The ASCII digits, and ARABIC-INDIC DIGIT THREE written as one character:
\* in a str pattern \d matches every Unicode decimal digit
AsciiDigits == {"0","1","2","3","4","5","6","7","8","9"}
UnicodeDigits == AsciiDigits \cup {"U+0663"}

\* re.sub(r"[^\d+]", "", raw)
clean_number(raw) ==
    SelectSeq(raw, LAMBDA c : c \in UnicodeDigits \cup {"+"})

\* core.load_contacts, for a file that exists
load_contacts(path) ==
    LET rows == SelectSeq(RosterRows(path),
                          LAMBDA r : Strip(r.name) # <<>> /\ Strip(r.number) # <<>>)
    IN  [i \in DOMAIN rows |->
            make_contact(rows[i].name, clean_number(Strip(rows[i].number)), Strip(rows[i].alias))]

\* The loop of send_flow over picked_entries: the contacts of the picked
\* files, or the FileNotFoundError of the first file that does not exist
RECURSIVE load_picked(_, _, _)
load_picked(picked_entries, files, acc) ==
    IF picked_entries = <<>> THEN [raised |-> FALSE, contacts |-> acc]
    ELSE IF Head(picked_entries).path \notin files THEN [raised |-> TRUE, contacts |-> acc]
    ELSE load_picked(Tail(picked_entries), files, acc \o load_contacts(Head(picked_entries).path))

\* The values of the options of overlay_menu("Recipients", ...)
MenuOptions == <<"all", "pick", "manual", "None">>

ClosedPicker == [state |-> "closed"]

\* The locals of send_flow at its first line
NewFlow(files, script, flows) ==
    [pc |-> "landing", files |-> files, script |-> script, flows |-> flows,
     picked |-> <<>>, contacts |-> <<>>, mode |-> "None", idx |-> 0, offset |-> 0,
     buf |-> <<>>, resolved |-> <<>>, missing |-> <<>>, message |-> <<>>,
     normalized |-> <<>>, preview_ch |-> "None", sent |-> <<>>, title |-> ""]

\* return: back in the loop of run, the landing menu drawn
ToLanding(f) == [f |-> [f EXCEPT !.pc = "landing"], p |-> ClosedPicker]

\* show_message(title, ...) followed by return
ShowThenReturn(f, title) ==
    [f |-> [f EXCEPT !.pc = "show_message", !.title = title], p |-> ClosedPicker]

\* preview_send returning True for every key but Escape
preview_not_escape(ch) == ch # "Esc"

\* preview_send: return ch in (10, 13)
preview_confirmed(ch) == ch = "Enter"

\* line 761-763: input_multiline has returned message
AfterCompose(f, message) ==
    IF message.kind = "none" \/ StripWs(message.text) = <<>> THEN ToLanding(f)
    ELSE [f |-> [f EXCEPT !.pc = "preview_send", !.message = message.text,
                          !.normalized = normalize_message(message.text)],
          p |-> ClosedPicker]

\* line 761: the recipients are resolved, input_multiline opens
AfterRecipients(f, rs, ms) ==
    [f |-> [f EXCEPT !.pc = "input_multiline", !.resolved = rs, !.missing = ms, !.buf = <<>>],
     p |-> ClosedPicker]

\* line 743-746: contact_browser has returned chosen
AfterBrowser(f, result) ==
    IF result.kind = "none" \/ result.items = <<>> THEN ToLanding(f)
    ELSE AfterRecipients(f, dedup(result.items), <<>>)

\* line 750-757: input_line has returned recipients
AfterInputLine(f, recipients) ==
    IF recipients.kind = "none" \/ Strip(recipients.text) = <<>> THEN ToLanding(f)
    ELSE LET r == resolve_tokens(tokenize_names(recipients.text), f.contacts)
         IN  IF r.resolved = <<>> THEN ShowThenReturn(f, "No recipients")
             ELSE AfterRecipients(f, r.resolved, r.missing)

\* line 737-759: overlay_menu has returned mode
AfterMode(f, mode, rows) ==
    IF mode = "None" THEN ToLanding(f)
    ELSE IF mode = "all" THEN AfterRecipients([f EXCEPT !.mode = mode], f.contacts, <<>>)
    ELSE IF mode = "pick"
    THEN [f |-> [f EXCEPT !.mode = mode, !.pc = "contact_browser"],
          p |-> OpenPicker("contact_browser", TRUE, f.contacts, rows)]
    ELSE [f |-> [f EXCEPT !.mode = mode, !.pc = "input_line", !.buf = <<>>], p |-> ClosedPicker]

\* line 708-735: list_picker has returned picked
AfterListPicker(f, result) ==
    IF result.kind = "none" \/ result.items = <<>> THEN ToLanding(f)
    ELSE LET loaded == load_picked(result.items, f.files, <<>>)
         IN  IF loaded.raised THEN ShowThenReturn([f EXCEPT !.picked = result.items], "Missing list")
             ELSE IF dedup(loaded.contacts) = <<>>
                  THEN ShowThenReturn([f EXCEPT !.picked = result.items], "Empty list")
                  ELSE [f |-> [f EXCEPT !.pc = "overlay_menu", !.picked = result.items,
                                        !.contacts = dedup(loaded.contacts),
                                        !.idx = 0, !.offset = 0],
                        p |-> ClosedPicker]

\* The continuation of send_flow when the picker or browser p has returned
AfterPicker(f, p, rows) ==
    IF p.kind = "list_picker" THEN AfterListPicker(f, p.result) ELSE AfterBrowser(f, p.result)

\* overlay_menu: the top of the inner loop, height = min(12, len(options) + 4)
MenuFrame(f) ==
    LET max_rows == Min(12, Len(MenuOptions) + 4) - 4
        off1 == IF f.idx < f.offset THEN f.idx ELSE f.offset
        off2 == IF f.idx >= off1 + max_rows THEN f.idx - max_rows + 1 ELSE off1
    IN  [f EXCEPT !.offset = off2]

\* Terminal sizes <<rows, cols>> of the send flow
FlowSizes == { <<24, 80>>, <<30, 100>> }

\* The sets of .csv files that exist while send_flow runs
FlowFileSets == { {}, {AllCsv, BrothersCsv, PledgesCsv} }

\* The characters typed into input_line and into input_multiline
InputChars == {"a", "c", "x", ","}
ComposeChars == {"h", "#"}

SendInit ==
    /\ \E size \in FlowSizes : termRows = size[1] /\ termCols = size[2]
    /\ \E files \in FlowFileSets, script \in BOOLEAN : flow = NewFlow(files, script, 0)
    /\ pk = ClosedPicker
    /\ fz = [pc |-> "none"]
    /\ ed = [pc |-> "none"]
    /\ disk = <<>>
    /\ ov = [pc |-> "none"]
    /\ StepsIdle
    /\ contacts = <<>>
    /\ tokens = <<>>
    /\ rpc = "idle"
    /\ tokIdx = 0
    /\ chosen = <<>>
    /\ missing = <<>>
    /\ resolved = <<>>
    /\ sel = <<>>

\* run: Enter on "Send"; send_flow lists the rosters and opens list_picker
SendOpen ==
    /\ flow.pc = "landing"
    /\ flow.flows < MaxFlows
    /\ flow' = [NewFlow(flow.files, flow.script, flow.flows + 1) EXCEPT !.pc = "list_picker"]
    /\ pk' = OpenPicker("list_picker", TRUE, list_entries(flow.files), termRows)
    /\ UNCHANGED <<termRows, termCols, fz, ed, disk, ov, resolverVars, stepVars>>

\* list_picker / contact_browser: Enter
FlowPickerEnter ==
    /\ flow.pc \in {"list_picker", "contact_browser"}
    /\ pk.state = "frame"
    /\ \E q \in {OnEnter(pk)} :
          IF q.state = "returned"
          THEN \E r \in {AfterPicker(flow, q, termRows)} : flow' = r.f /\ pk' = r.p
          ELSE /\ pk' = (IF q.state = "frame" THEN Frame(q, termRows) ELSE q)
               /\ flow' = flow
    /\ UNCHANGED <<termRows, termCols, fz, ed, disk, ov, resolverVars, stepVars>>

\* list_picker / contact_browser: Escape
FlowPickerEsc ==
    /\ flow.pc \in {"list_picker", "contact_browser"}
    /\ pk.state = "frame"
    /\ \E r \in {AfterPicker(flow, OnEsc(pk), termRows)} : flow' = r.f /\ pk' = r.p
    /\ UNCHANGED <<termRows, termCols, fz, ed, disk, ov, resolverVars, stepVars>>

\* overlay_menu: one key
MenuKey(k) ==
    /\ flow.pc = "overlay_menu"
    /\ \E r \in { IF k = "Up" THEN [f |-> MenuFrame([flow EXCEPT !.idx = Max(0, flow.idx - 1)]), p |-> pk]
                  ELSE IF k = "Down"
                  THEN [f |-> MenuFrame([flow EXCEPT !.idx = Min(Len(MenuOptions) - 1, flow.idx + 1)]),
                        p |-> pk]
                  ELSE IF k = "Enter" THEN AfterMode(flow, MenuOptions[flow.idx + 1], termRows)
                  ELSE IF k = "Esc" THEN AfterMode(flow, "None", termRows)
                  ELSE [f |-> flow, p |-> pk] } :
          flow' = r.f /\ pk' = r.p
    /\ UNCHANGED <<termRows, termCols, fz, ed, disk, ov, resolverVars, stepVars>>

\* input_line: one key
InputLineKey(k) ==
    /\ flow.pc = "input_line"
    /\ k \in InputChars => Len(flow.buf) < MaxInput
    /\ \E r \in { IF k = "Enter" THEN AfterInputLine(flow, [kind |-> "text", text |-> Strip(flow.buf)])
                  ELSE IF k = "Esc" THEN AfterInputLine(flow, [kind |-> "none"])
                  ELSE IF k = "Backspace"
                  THEN [f |-> [flow EXCEPT !.buf = SubSeq(flow.buf, 1, Len(flow.buf) - 1)], p |-> pk]
                  ELSE IF k \in InputChars /\ Len(flow.buf) < 66
                  THEN [f |-> [flow EXCEPT !.buf = Append(flow.buf, k)], p |-> pk]
                  ELSE [f |-> flow, p |-> pk] } :
          flow' = r.f /\ pk' = r.p
    /\ UNCHANGED <<termRows, termCols, fz, ed, disk, ov, resolverVars, stepVars>>

\* input_multiline: one key of Textbox.edit under validator; "Finish" is Ctrl+D
ComposeKey(k) ==
    /\ flow.pc = "input_multiline"
    /\ k \in ComposeChars => Len(flow.buf) < MaxMessage
    /\ \E r \in { IF k = "Finish" THEN AfterCompose(flow, [kind |-> "text", text |-> StripWs(flow.buf)])
                  ELSE IF k = "Esc" THEN AfterCompose(flow, [kind |-> "none"])
                  ELSE IF k \in ComposeChars
                  THEN [f |-> [flow EXCEPT !.buf = Append(flow.buf, k)], p |-> pk]
                  ELSE [f |-> flow, p |-> pk] } :
          flow' = r.f /\ pk' = r.p
    /\ UNCHANGED <<termRows, termCols, fz, ed, disk, ov, resolverVars, stepVars>>

\* preview_send: one key other than KEY_RESIZE, then line 765-767
PreviewKey(k) ==
    /\ flow.pc = "preview_send"
    /\ flow' = [flow EXCEPT !.preview_ch = k,
                            !.pc = IF preview_confirmed(k) THEN "send_messages" ELSE "landing"]
    /\ UNCHANGED <<termRows, termCols, pk, fz, ed, disk, ov, resolverVars, stepVars>>

\* show_message of send_flow: any key other than KEY_RESIZE, then return
ShowMessageKey ==
    /\ flow.pc = "show_message"
    /\ flow' = [flow EXCEPT !.pc = "landing"]
    /\ UNCHANGED <<termRows, termCols, pk, fz, ed, disk, ov, resolverVars, stepVars>>

\* send_messages: one pass of the loop over resolved. core.send_message
\* raises FileNotFoundError when the script is absent, and nothing up to run
\* catches it; otherwise osascript runs and its exit status decides ok.
SendOne ==
    /\ flow.pc = "send_messages"
    /\ LET i == Len(flow.sent) + 1
           number == flow.resolved[i].number
       IN  IF ~flow.script
           THEN flow' = [flow EXCEPT !.pc = "raised",
                                     !.sent = Append(flow.sent, [number |-> number, result |-> "raised"])]
           ELSE \E ok \in BOOLEAN :
                   flow' = [flow EXCEPT
                              !.sent = Append(flow.sent, [number |-> number,
                                                          result |-> IF ok THEN "OK" ELSE "FAIL"]),
                              !.pc = IF i = Len(flow.resolved) THEN "done" ELSE "send_messages"]
    /\ UNCHANGED <<termRows, termCols, pk, fz, ed, disk, ov, resolverVars, stepVars>>

\* send_messages: "Done. Press any key."
DoneKey ==
    /\ flow.pc = "done"
    /\ flow' = [flow EXCEPT !.pc = "landing"]
    /\ UNCHANGED <<termRows, termCols, pk, fz, ed, disk, ov, resolverVars, stepVars>>

\* KEY_RESIZE read by the widget that is waiting for a key
FlowResize ==
    /\ flow.pc \notin {"none", "send_messages", "raised"}
    /\ \E size \in FlowSizes :
          /\ termRows' = size[1]
          /\ termCols' = size[2]
          /\ IF flow.pc \in {"input_line", "input_multiline", "done"}
             THEN flow' = [flow EXCEPT !.pc = "landing"] /\ pk' = pk
             ELSE /\ flow' = flow
                  /\ pk' = (IF pk.state = "frame" THEN Frame(pk, size[1]) ELSE pk)
    /\ UNCHANGED <<fz, ed, disk, ov, resolverVars, stepVars>>

SendNext ==
    \/ SendOpen
    \/ PickerUp \/ PickerDown \/ PickerBackspace \/ PickerSpace \/ PickerChar
    \/ FlowPickerEnter \/ FlowPickerEsc \/ NoticeKey
    \/ \E k \in {"Up", "Down", "Enter", "Esc", "Space"} : MenuKey(k)
    \/ \E k \in {"Enter", "Esc", "Backspace"} \cup InputChars : InputLineKey(k)
    \/ \E k \in {"Finish", "Esc"} \cup ComposeChars : ComposeKey(k)
    \/ \E k \in {"Enter", "Esc", "Space"} : PreviewKey(k)
    \/ ShowMessageKey
    \/ SendOne
    \/ DoneKey
    \/ FlowResize

SpecSend == SendInit /\ [][SendNext]_vars

-----------------------------------------------------------------------------
(* Claims about send_flow *)

\* The numbers core.send_message was called with, in call order
SentNumbers == [i \in DOMAIN flow.sent |-> flow.sent[i].number]

\* The numbers of the resolved recipients, in list order
ResolvedNumbers == [i \in DOMAIN flow.resolved |-> flow.resolved[i].number]

\* Every step of send_flow before dispatch has completed in f: a roster was
\* picked and loaded, a recipient mode chosen, recipients resolved, a
\* message composed, and the preview answered with Enter
StepsCompleted(f) ==
    /\ f.picked # <<>>
    /\ f.contacts # <<>>
    /\ f.mode \in {"all", "pick", "manual"}
    /\ f.resolved # <<>>
    /\ \A i \in DOMAIN f.resolved : InSeq(f.resolved[i], f.contacts)
    /\ StripWs(f.message) # <<>>
    /\ f.preview_ch = "Enter"

\* Escape read by the roster picker, the recipient-mode menu, the contact
\* browser, the manual-entry line, the compose editor, the preview or a
\* notice of send_flow itself
EscapeAtStep ==
    \/ FlowPickerEsc
    \/ MenuKey("Esc")
    \/ InputLineKey("Esc")
    \/ ComposeKey("Esc")
    \/ PreviewKey("Esc")
    \/ ShowMessageKey

\* Escape read by the "No selection" notice of the contact browser
EscapeAtBrowserNotice == flow.pc = "contact_browser" /\ NoticeKey

\* C1 as stated: core.send_message is invoked only after every earlier step
\* completed and the preview was confirmed with Enter, and Escape at any
\* step before dispatch, the browser's notice included, returns to the
\* landing menu with zero sends issued.
C1_EscapeAnywhereReturns ==
    [][ /\ flow'.sent # <<>> => StepsCompleted(flow')
        /\ (EscapeAtStep \/ EscapeAtBrowserNotice)
              => (flow'.pc = "landing" /\ flow'.sent = <<>>) ]_vars

\* C1, amended: core.send_message is invoked only after every earlier step
\* completed and the preview was confirmed with Enter, and Escape at the
\* roster picker, the mode menu, the contact browser, the manual-entry line,
\* the compose editor or the preview returns to the landing menu with zero
\* sends issued.
C1_SendOnlyAfterConfirm ==
    [][ /\ flow'.sent # <<>> => StepsCompleted(flow')
        /\ EscapeAtStep => (flow'.pc = "landing" /\ flow'.sent = <<>>) ]_vars

\* C1 witness: a flow that went through manual entry with an unmatched token,
\* was confirmed and has dispatched, back at the landing menu
C1_Witness ==
    /\ flow.pc = "landing"
    /\ flow.mode = "manual"
    /\ flow.missing # <<>>
    /\ flow.preview_ch = "Enter"
    /\ Len(flow.sent) = Len(flow.resolved)
    /\ flow.sent # <<>>

\* C2: the dispatch loop calls the delivery primitive once per resolved
\* recipient, in list order, one at a time; once the loop is over, whatever
\* the results, every resolved recipient has had its call.
C2_OncePerRecipientInOrder ==
    flow.pc # "none" =>
        /\ Len(SentNumbers) <= Len(ResolvedNumbers)
        /\ SentNumbers = SubSeq(ResolvedNumbers, 1, Len(SentNumbers))
        /\ (flow.preview_ch = "Enter" /\ flow.pc # "send_messages")
              => SentNumbers = ResolvedNumbers

-----------------------------------------------------------------------------
(* Claims about the keys of list_picker and contact_browser *)

\* The locals at the next wait for a key, or at the return, after the
\* handler of a key left q
NextFrame(q) == IF q.state = "frame" THEN Frame(q, termRows) ELSE q

\* The step appends c to filterText and resets selectionIndex and
\* scrollOffset (an overlay without list rows has no offset 0 to show)
Appends(c) ==
    /\ pk'.state = "frame"
    /\ pk'.query = Append(pk.query, c)
    /\ pk'.idx = 0
    /\ MaxRows(pk.kind, termRows) >= 1 => pk'.offset = 0

\* C11: every printable character key is appended to filterText and resets
\* selectionIndex and scrollOffset to 0: the letters j and k (whose steps are
\* those of PickerDown and PickerUp) like any other letter, and the space
\* too in single-select mode.
C11_PrintableAppends ==
    [][ /\ PickerChar => \E c \in FilterChars : Appends(c)
        /\ PickerDown => Appends("j")
        /\ PickerUp => Appends("k")
        /\ (PickerSpace /\ ~pk.multi) => Appends(" ") ]_vars

\* selectedSet with the membership of key flipped
Toggled(S, key) == IF key \in S THEN S \ {key} ELSE S \cup {key}

\* C12: in multi-select mode with a non-empty filtered list, Space flips the
\* membership of the highlighted candidate's key in selectedSet and changes
\* nothing else, so a second Space restores selectedSet; in single-select
\* mode, and on an empty filtered list, Space leaves selectedSet as it is.
C12_SpaceToggles ==
    [][ PickerSpace =>
          /\ pk'.state = "frame"
          /\ pk'.query = pk.query
          /\ pk'.idx = pk.idx
          /\ pk'.offset = pk.offset
          /\ pk'.filtered = pk.filtered
          /\ IF pk.multi /\ pk.filtered # <<>>
             THEN /\ pk'.selected = Toggled(pk.selected, ItemKey(pk.kind, pk.filtered[pk.idx + 1]))
                  /\ pk'.selected # pk.selected
                  /\ NextFrame(OnSpace(pk')).selected = pk.selected
             ELSE pk'.selected = pk.selected ]_vars

\* C12 witness: a multi-select picker in which Space has removed a key that
\* Space had added, another key staying selected under a filter
C12_Witness ==
    /\ pk.state = "frame"
    /\ pk.multi
    /\ pk.query # <<>>
    /\ pk.filtered # <<>>
    /\ pk.selected # {}
    /\ ItemKey(pk.kind, pk.filtered[pk.idx + 1]) \notin pk.selected

\* C13: in single-select mode Enter ends the picker, returning the
\* highlighted candidate of a non-empty filtered list and no value when the
\* filtered list is empty.
C13_SingleEnterReturns ==
    (pk.state = "frame" /\ ~pk.multi) =>
        /\ OnEnter(pk).state = "returned"
        /\ OnEnter(pk).result = IF pk.filtered # <<>>
                                THEN [kind |-> "item", item |-> pk.filtered[pk.idx + 1]]
                                ELSE [kind |-> "none"]

\* C14: in multi-select mode Enter with an empty selectedSet opens a notice
\* and returns nothing; the picker stays open with filterText and
\* selectedSet unchanged.
C14_EmptyConfirmNotice ==
    (pk.state = "frame" /\ pk.multi /\ pk.selected = {}) =>
        /\ OnEnter(pk).state = "notice"
        /\ OnEnter(pk).query = pk.query
        /\ OnEnter(pk).selected = pk.selected

\* C15: in multi-select mode with a non-empty selectedSet, Enter returns
\* exactly the candidates whose key is selected, in the order of the list
\* the picker was called with, whatever the filter shows.
C15_ConfirmReturnsSelected ==
    (pk.state = "frame" /\ pk.multi /\ pk.selected # {}) =>
        /\ OnEnter(pk).state = "returned"
        /\ OnEnter(pk).result =
              [kind |-> "list",
               items |-> Keep(pk.items, { i \in DOMAIN pk.items :
                                            ItemKey(pk.kind, pk.items[i]) \in pk.selected })]

StrLeq(a, b) == a = b \/ StrLess(a, b)

\* The candidates for which the fuzzy score of the filter is defined
Matching(p) ==
    { i \in DOMAIN p.cands : fuzzy_match_score(p.query, ItemHay(p.kind, p.cands[i])) # None }

\* seq lists exactly the elements of cand at the indices of I, each once
ListsExactly(seq, cand, I) ==
    /\ Len(seq) = Cardinality(I)
    /\ \A i \in I : InSeq(cand[i], seq)
    /\ \A k \in DOMAIN seq : \E i \in I : cand[i] = seq[k]

\* C17: the visible list of a frame is, with an empty filter, all the
\* candidates in alphabetical order of name or label and, with a filter,
\* exactly the candidates that have a fuzzy score, by descending score and,
\* for equal scores, ascending case-insensitive name.
C17_VisibleListOrder ==
    pk.state = "frame" =>
        LET shown == pk.filtered
            name(k) == ItemName(pk.kind, shown[k])
            score(k) == fuzzy_match_score(pk.query, ItemHay(pk.kind, shown[k]))
        IN  IF pk.query = <<>>
            THEN /\ ListsExactly(shown, pk.items, DOMAIN pk.items)
                 /\ \A k \in 1..(Len(shown) - 1) : StrLeq(name(k), name(k + 1))
            ELSE /\ ListsExactly(shown, pk.cands, Matching(pk))
                 /\ \A k \in 1..(Len(shown) - 1) :
                       \/ score(k) > score(k + 1)
                       \/ (score(k) = score(k + 1) /\ StrLeq(name(k), name(k + 1)))

-----------------------------------------------------------------------------
(* ui/tui.py: fuzzy_score and fuzzy_match_score called on their own *)

\* Longest query and longest haystack of the calls
MaxNeedle == 3
MaxHay == 4

\* The characters of the queries and of the haystacks: a letter of each case
\* and the space, so that a match needs the lower-casing of both sides
QueryChars == {"a", "B", " "}
HayChars == {"A", "b", " "}

FuzzyInit ==
    /\ \E query \in SeqsUpTo(QueryChars, MaxNeedle), hay \in SeqsUpTo(HayChars, MaxHay) :
          fz = [pc |-> "start", query |-> query, hay |-> hay, score |-> 0, total |-> 0,
                self |-> 0]
    /\ ed = [pc |-> "none"]
    /\ disk = <<>>
    /\ ov = [pc |-> "none"]
    /\ StepsIdle
    /\ termRows = 24
    /\ termCols = 80
    /\ pk = ClosedPicker
    /\ flow = [pc |-> "none"]
    /\ contacts = <<>>
    /\ tokens = <<>>
    /\ rpc = "idle"
    /\ tokIdx = 0
    /\ chosen = <<>>
    /\ missing = <<>>
    /\ resolved = <<>>
    /\ sel = <<>>

\* score = self.fuzzy_score(query, hay)
FuzzyScoreCall ==
    /\ fz.pc = "start"
    /\ fz' = [fz EXCEPT !.pc = "scored", !.score = fuzzy_score(fz.query, fz.hay)]
    /\ UNCHANGED <<termRows, termCols, pk, flow, ed, disk, ov, resolverVars, stepVars>>

\* total = self.fuzzy_match_score(query, hay)
FuzzyMatchCall ==
    /\ fz.pc = "scored"
    /\ fz' = [fz EXCEPT !.pc = "done", !.total = fuzzy_match_score(fz.query, fz.hay)]
    /\ UNCHANGED <<termRows, termCols, pk, flow, ed, disk, ov, resolverVars, stepVars>>

\* own = self.fuzzy_match_score(query, query)
FuzzySelfCall ==
    /\ fz.pc = "done"
    /\ fz' = [fz EXCEPT !.pc = "self", !.self = fuzzy_match_score(fz.query, fz.query)]
    /\ UNCHANGED <<termRows, termCols, pk, flow, ed, disk, ov, resolverVars, stepVars>>

FuzzyNext == FuzzyScoreCall \/ FuzzyMatchCall \/ FuzzySelfCall

SpecFuzzy == FuzzyInit /\ [][FuzzyNext]_vars

-----------------------------------------------------------------------------
(* Claims about the fuzzy matcher *)

\* q is one word: not empty, no whitespace
SingleWord(q) == q # <<>> /\ \A i \in DOMAIN q : q[i] # " "

\* n is an ordered, not necessarily contiguous, subsequence of h
IsSubsequence(n, h) ==
    \E f \in [DOMAIN n -> DOMAIN h] :
        /\ \A i, j \in DOMAIN n : i < j => f[i] < f[j]
        /\ \A i \in DOMAIN n : h[f[i]] = n[i]

\* C18: for a non-empty single-word query fuzzy_score returns no value
\* exactly when the lower-cased query is not an ordered subsequence of the
\* lower-cased haystack.
C18_NoneIffNotSubsequence ==
    (fz.pc \in {"scored", "done"} /\ SingleWord(fz.query)) =>
        (fz.score = None <=> ~IsSubsequence(Lower(fz.query), Lower(fz.hay)))

\* C18 witness: a scored query of two characters or more that matches the
\* haystack only with a gap, after lower-casing
C18_Witness ==
    /\ fz.pc = "scored"
    /\ SingleWord(fz.query)
    /\ Len(fz.query) >= 2
    /\ fz.score # None
    /\ ~IsSubstring(Lower(fz.query), Lower(fz.hay))

\* The positions (1-based) at which the leftmost-first search matches the
\* characters of n in h, n a subsequence of h
MatchPositions(n, h) ==
    LET pos[i \in 0..Len(n)] ==
            IF i = 0 THEN 0
            ELSE CHOOSE q \in (pos[i - 1] + 1)..Len(h) :
                    /\ h[q] = n[i]
                    /\ \A r \in (pos[i - 1] + 1)..(q - 1) : h[r] # n[i]
    IN  pos

\* The score of the claim: per matched character 1 point, 2 more when it
\* directly follows the previous matched character, 2 more at position 0;
\* 4 + len(query) more when the query is a substring
ClaimedScore(n, h) ==
    LET pos == MatchPositions(n, h)
        pts[i \in 0..Len(n)] ==
            IF i = 0 THEN 0
            ELSE pts[i - 1] + 1
                 + (IF i > 1 /\ pos[i] = pos[i - 1] + 1 THEN 2 ELSE 0)
                 + (IF pos[i] = 1 THEN 2 ELSE 0)
    IN  pts[Len(n)] + (IF IsSubstring(n, h) THEN 4 + Len(n) ELSE 0)

\* C19: the score of a matching single-word query is the sum, over the
\* matched characters, of 1 point, plus 2 for a character directly after the
\* previous matched one (the first has no previous one), plus 2 at position
\* 0, and 4 + len(query) more when the query is a substring of the haystack.
C19_ScoreFormula ==
    (fz.pc \in {"scored", "done"} /\ SingleWord(fz.query) /\ fz.score # None) =>
        fz.score = ClaimedScore(Lower(fz.query), Lower(fz.hay))

\* The sum of the scores of the words ws against hay, no word without score
WordScoreSum(ws, hay) ==
    LET acc[i \in 0..Len(ws)] ==
            IF i = 0 THEN 0 ELSE acc[i - 1] + fuzzy_score(ws[i], hay)
    IN  acc[Len(ws)]

\* C20: fuzzy_match_score is the sum of fuzzy_score of each whitespace-
\* separated word against the whole haystack, no value as soon as one word
\* has none, and 0 for the empty query.
C20_WordsSummed ==
    fz.pc = "done" =>
        LET ws == Words(Lower(fz.query))
        IN  fz.total = IF fz.query = <<>> THEN 0
                       ELSE IF \E i \in DOMAIN ws : fuzzy_score(ws[i], fz.hay) = None THEN None
                       ELSE WordScoreSum(ws, fz.hay)

\* C20 witness: a query of two words, both found in the haystack, the second
\* one at a position before the end of the first one's match
C20_Witness ==
    /\ fz.pc = "done"
    /\ Len(Words(fz.query)) = 2
    /\ fz.total # None
    /\ fz.total = fuzzy_score(Words(fz.query)[1], fz.hay) + fuzzy_score(Words(fz.query)[2], fz.hay)
    /\ Words(Lower(fz.query))[1] # Words(Lower(fz.query))[2]
    /\ Find(Lower(fz.hay), Words(Lower(fz.query))[2][1], 0)
          < Find(Lower(fz.hay), Words(Lower(fz.query))[1][1], 0)

\* C21: for every non-empty query, with several words, repeated characters,
\* mixed case or surrounding whitespace, fuzzy_match_score(query, query)
\* returns a value.
C21_SelfMatch ==
    (fz.pc = "self" /\ fz.query # <<>>) => fz.self # None

\* C21 witness: a query of two words, not all lower case, scored against
\* itself
C21_Witness ==
    /\ fz.pc = "self"
    /\ Len(Words(fz.query)) = 2
    /\ Lower(fz.query) # fz.query
    /\ fz.self # None
    /\ fz.self > 0

-----------------------------------------------------------------------------
(* ui/tui.py: input_line, prompt_field, overlay_menu, list_add_flow and
   list_remove_flow, with core.write_contacts and core.load_contacts *)

\* Longest text typed into one prompt, and the flows list_flow starts
MaxField == 2
MaxEdits == 1

\* input_line returning the buffer as typed on Enter
input_line_raw(buf, k, max_len) ==
    IF k = "Resize"
    THEN [state |-> "returned", buf |-> buf, result |-> [kind |-> "none"], redraw |-> TRUE]
    ELSE IF k = "Enter"
    THEN [state |-> "returned", buf |-> buf, result |-> [kind |-> "text", text |-> buf],
          redraw |-> FALSE]
    ELSE IF k = "Esc"
    THEN [state |-> "returned", buf |-> buf, result |-> [kind |-> "none"], redraw |-> FALSE]
    ELSE IF k = "Backspace"
    THEN [state |-> "editing", buf |-> SubSeq(buf, 1, Len(buf) - 1),
          result |-> [kind |-> "pending"], redraw |-> FALSE]
    ELSE [state |-> "editing", buf |-> IF Len(buf) < max_len THEN Append(buf, k) ELSE buf,
          result |-> [kind |-> "pending"], redraw |-> FALSE]

\* TuiApp.input_line: one pass of its loop on the key k, a printable
\* character when it is none of the named keys; redraw is handle_resize
input_line(buf, k, max_len) ==
    IF k = "Resize"
    THEN [state |-> "returned", buf |-> buf, result |-> [kind |-> "none"], redraw |-> TRUE]
    ELSE IF k = "Enter"
    THEN [state |-> "returned", buf |-> buf, result |-> [kind |-> "text", text |-> Strip(buf)],
          redraw |-> FALSE]
    ELSE IF k = "Esc"
    THEN [state |-> "returned", buf |-> buf, result |-> [kind |-> "none"], redraw |-> FALSE]
    ELSE IF k = "Backspace"
    THEN [state |-> "editing", buf |-> SubSeq(buf, 1, Len(buf) - 1),
          result |-> [kind |-> "pending"], redraw |-> FALSE]
    ELSE [state |-> "editing", buf |-> IF Len(buf) < max_len THEN Append(buf, k) ELSE buf,
          result |-> [kind |-> "pending"], redraw |-> FALSE]

\* prompt_field: width = min(70, cols - 6), max_len = width - 4
PromptMaxLen(cols) == Min(70, cols - 6) - 4

\* ",".join(aliases)
RECURSIVE JoinComma(_)
JoinComma(ws) ==
    IF ws = <<>> THEN <<>>
    ELSE IF Len(ws) = 1 THEN ws[1]
    ELSE ws[1] \o <<",">> \o JoinComma(Tail(ws))

\* The stem of lists/all.csv
AllStem == <<"a","l","l">>
BrothersStem == <<"b","r","o","t","h","e","r","s">>
PledgesStem == <<"p","l","e","d","g","e","s">>

\* The file name of a roster
CsvName(stem) == stem \o <<".","c","s","v">>

\* sorted(LISTS_DIR.glob("*.csv")), for the stems S
RECURSIVE SortedStems(_)
SortedStems(S) ==
    IF S = {} THEN <<>>
    ELSE LET least == CHOOSE s \in S : \A t \in S \ {s} : StrLess(CsvName(s), CsvName(t))
         IN  <<least>> \o SortedStems(S \ {least})

\* core.list_entries, for the roster files d
disk_entries(d) ==
    LET fromMap ==
            (IF AllStem \in DOMAIN d THEN <<[label |-> AllStem, path |-> AllStem]>> ELSE <<>>)
            \o (IF BrothersStem \in DOMAIN d
                THEN <<[label |-> <<"a","c","t","i","v","e","s">>, path |-> BrothersStem],
                       [label |-> BrothersStem, path |-> BrothersStem]>>
                ELSE <<>>)
            \o (IF PledgesStem \in DOMAIN d
                THEN <<[label |-> PledgesStem, path |-> PledgesStem]>> ELSE <<>>)
        rest == SortedStems(DOMAIN d \ {AllStem, BrothersStem, PledgesStem})
        entries == fromMap \o [i \in DOMAIN rest |-> [label |-> rest[i], path |-> rest[i]]]
    IN  IF entries = <<>> THEN <<[label |-> AllStem, path |-> AllStem]>> ELSE entries

\* core.load_contacts, for the rows of a file that exists
read_contacts(rows) ==
    LET kept == SelectSeq(rows, LAMBDA r : Strip(r.name) # <<>> /\ Strip(r.number) # <<>>)
    IN  [i \in DOMAIN kept |->
            make_contact(kept[i].name, clean_number(Strip(kept[i].number)), Strip(kept[i].alias))]

\* core.write_contacts: the rows written, sorted by name.lower()
written_rows(cs) ==
    LET sorted == StableSort(cs, [i \in DOMAIN cs |-> <<0, Lower(cs[i].name)>>])
    IN  [i \in DOMAIN sorted |->
            [name |-> sorted[i].name, number |-> sorted[i].number,
             alias |-> JoinComma(sorted[i].aliases)]]

\* The roster files after core.write_contacts(path, cs)
write_contacts(d, path, cs) ==
    [s \in DOMAIN d \cup {path} |-> IF s = path THEN written_rows(cs) ELSE d[s]]

\* No call of input_line has returned since the last key was read
NoReturn == [buf |-> <<>>, result |-> [kind |-> "pending"], redraw |-> FALSE]

\* The locals of a list flow at its first line; last is the call of
\* input_line that has just returned: its buffer, its value and whether it
\* called handle_resize
NewEdit(action, flows) ==
    [pc |-> "returned", action |-> action, flows |-> flows, menu |-> "", options |-> <<>>,
     idx |-> 0, offset |-> 0, buf |-> <<>>, last |-> NoReturn,
     label |-> <<>>, path |-> <<>>, contacts |-> <<>>, name |-> <<>>, raw_number |-> <<>>,
     number |-> <<>>, alias |-> <<>>, chosen |-> <<>>, writes |-> <<>>, title |-> ""]

\* overlay_menu: the top of the inner loop, height = min(12, len(options) + 4)
EditMenuFrame(e) ==
    LET max_rows == Min(12, Len(e.options) + 4) - 4
        o1 == IF e.idx < e.offset THEN e.idx ELSE e.offset
        o2 == IF e.idx >= o1 + max_rows THEN e.idx - max_rows + 1 ELSE o1
    IN  [e EXCEPT !.offset = o2]

\* overlay_menu(title, options) opens
OpenMenu(e, menu, options) ==
    EditMenuFrame([e EXCEPT !.pc = "overlay_menu", !.menu = menu, !.options = options,
                            !.idx = 0, !.offset = 0])

\* prompt_field(title, label) opens
OpenPrompt(e, field) == [e EXCEPT !.pc = field, !.buf = <<>>]

\* return from the flow, back in the loop of list_flow: the locals are gone
EditReturn(e, d) ==
    [e |-> [NewEdit("none", e.flows) EXCEPT !.last = e.last], d |-> d, p |-> ClosedPicker]

\* show_message(title, ...) followed by return
EditShow(e, d, title) ==
    [e |-> [e EXCEPT !.pc = "show_message", !.title = title], d |-> d, p |-> ClosedPicker]

\* list_add_flow line 852-857: the roster is loaded, the name prompt opens
AddLoad(e, d, label, path) ==
    [e |-> OpenPrompt([e EXCEPT !.label = label, !.path = path,
                                !.contacts = IF path \in DOMAIN d THEN read_contacts(d[path])
                                             ELSE <<>>], "name"),
     d |-> d, p |-> ClosedPicker]

\* list_add_flow line 835-850: overlay_menu("Add to list") has returned
AfterAddMenu(e, d, selection) ==
    IF selection.kind = "none" THEN EditReturn(e, d)
    ELSE IF selection.kind = "new"
    THEN [e |-> OpenPrompt(e, "newlist"), d |-> d, p |-> ClosedPicker]
    ELSE LET hits == SelectSeq(disk_entries(d), LAMBDA en : en.label = selection.label)
         IN  IF hits = <<>> THEN EditReturn(e, d)
             ELSE AddLoad(e, d, selection.label, hits[1].path)

\* list_add_flow line 838-845: prompt_field("New list") has returned
AfterNewList(e, d, name) ==
    IF name.kind = "none" \/ name.text = <<>> THEN EditReturn(e, d)
    ELSE LET label == Strip(name.text)
         IN  IF label \in DOMAIN d THEN AddLoad(e, d, label, label)
             ELSE AddLoad([e EXCEPT !.writes = Append(e.writes, [path |-> label, rows |-> <<>>])],
                          write_contacts(d, label, <<>>), label, label)

\* list_add_flow line 857-859: prompt_field("Name:") has returned
AfterName(e, d, name) ==
    IF name.kind = "none" \/ name.text = <<>> THEN EditReturn(e, d)
    ELSE [e |-> OpenPrompt([e EXCEPT !.name = name.text], "number"), d |-> d, p |-> ClosedPicker]

\* list_add_flow line 860-866: prompt_field("Number:") has returned
AfterNumber(e, d, raw_number) ==
    IF raw_number.kind = "none" THEN EditReturn(e, d)
    ELSE IF clean_number(raw_number.text) = <<>> THEN EditShow(e, d, "Invalid number")
    ELSE [e |-> OpenPrompt([e EXCEPT !.raw_number = raw_number.text,
                                     !.number = clean_number(raw_number.text)], "alias"),
          d |-> d, p |-> ClosedPicker]

\* list_add_flow writing the contact whatever numbers the roster holds
AfterAliasNoCheck(e, d, field) ==
    LET alias == IF field.kind = "none" THEN <<>> ELSE field.text
        cs == Append(e.contacts, make_contact(e.name, e.number, alias))
    IN  EditShow([e EXCEPT !.alias = alias, !.contacts = cs,
                           !.writes = Append(e.writes, [path |-> e.path, rows |-> written_rows(cs)])],
                 write_contacts(d, e.path, cs), "Added")

\* list_add_flow line 867-875: prompt_field("Alias (optional):") has returned
AfterAlias(e, d, field) ==
    LET alias == IF field.kind = "none" THEN <<>> ELSE field.text
    IN  IF \E i \in DOMAIN e.contacts : e.contacts[i].number = e.number
        THEN EditShow([e EXCEPT !.alias = alias], d, "Duplicate")
        ELSE LET cs == Append(e.contacts, make_contact(e.name, e.number, alias))
             IN  EditShow([e EXCEPT !.alias = alias, !.contacts = cs,
                                    !.writes = Append(e.writes,
                                                      [path |-> e.path, rows |-> written_rows(cs)])],
                          write_contacts(d, e.path, cs), "Added")

\* The continuation of list_add_flow when the prompt of e has returned field
AfterPrompt(e, d, field) ==
    IF e.pc = "newlist" THEN AfterNewList(e, d, field)
    ELSE IF e.pc = "name" THEN AfterName(e, d, field)
    ELSE IF e.pc = "number" THEN AfterNumber(e, d, field)
    ELSE AfterAlias(e, d, field)

\* list_remove_flow line 880-899: overlay_menu("Remove from list") has returned
AfterRemoveMenu(e, d, selection, rows) ==
    IF selection.kind = "none" THEN EditReturn(e, d)
    ELSE LET hits == SelectSeq(disk_entries(d), LAMBDA en : en.label = selection.label)
         IN  IF hits = <<>> THEN EditReturn(e, d)
             ELSE IF hits[1].path \notin DOMAIN d
             THEN EditShow([e EXCEPT !.label = selection.label, !.path = hits[1].path],
                           d, "Missing list")
             ELSE LET cs == read_contacts(d[hits[1].path])
                      e1 == [e EXCEPT !.label = selection.label, !.path = hits[1].path,
                                      !.contacts = cs]
                  IN  IF cs = <<>> THEN EditShow(e1, d, "Empty list")
                      ELSE [e |-> [e1 EXCEPT !.pc = "contact_browser"], d |-> d,
                            p |-> OpenPicker("contact_browser", TRUE, cs, rows)]

\* list_remove_flow line 899-903: contact_browser has returned
AfterRemoveBrowser(e, d, result) ==
    IF result.kind = "none" \/ result.items = <<>> THEN EditReturn(e, d)
    ELSE [e |-> OpenMenu([e EXCEPT !.chosen = result.items], "Confirm remove",
                         <<[kind |-> "yes"], [kind |-> "none"]>>),
          d |-> d, p |-> ClosedPicker]

\* list_remove_flow writing the roster whatever the confirm step returned
AfterConfirmAlways(e, d, confirm) ==
    LET gone == { e.chosen[i].number : i \in DOMAIN e.chosen }
        remaining == SelectSeq(e.contacts, LAMBDA c : c.number \notin gone)
    IN  EditShow([e EXCEPT !.writes = Append(e.writes,
                                             [path |-> e.path, rows |-> written_rows(remaining)])],
                 write_contacts(d, e.path, remaining), "Removed")

\* list_remove_flow line 903-907: overlay_menu("Confirm remove") has returned
AfterConfirm(e, d, confirm) ==
    IF confirm.kind # "yes" THEN EditReturn(e, d)
    ELSE LET gone == { e.chosen[i].number : i \in DOMAIN e.chosen }
             remaining == SelectSeq(e.contacts, LAMBDA c : c.number \notin gone)
         IN  EditShow([e EXCEPT !.writes = Append(e.writes,
                                                  [path |-> e.path, rows |-> written_rows(remaining)])],
                      write_contacts(d, e.path, remaining), "Removed")

\* The continuation of the flow when overlay_menu has returned value
AfterMenu(e, d, value, rows) ==
    IF e.menu = "Add to list" THEN AfterAddMenu(e, d, value)
    ELSE IF e.menu = "Remove from list" THEN AfterRemoveMenu(e, d, value, rows)
    ELSE AfterConfirm(e, d, value)

\* The options of overlay_menu("Add to list") and ("Remove from list")
LabelOptions(d) ==
    LET entries == disk_entries(d)
    IN  [i \in DOMAIN entries |-> [kind |-> "label", label |-> entries[i].label]]

\* The characters typed into the prompts
EditChars == {"1", " ", "-"}

\* The terminal sizes of the list flows
EditSizes == { <<24, 80>>, <<30, 100>> }

\* The roster files the list flows start from
EditDisks ==
    { <<>>,
      [s \in {AllStem} |-> <<>>],
      [s \in {AllStem} |->
          << [name |-> <<"B","o">>, number |-> <<"(","1","1",")">>, alias |-> <<>>],
             [name |-> <<"A","n","n">>, number |-> <<"1">>, alias |-> <<"a","l">>] >>] }

ListsInit ==
    /\ \E size \in EditSizes : termRows = size[1] /\ termCols = size[2]
    /\ disk \in EditDisks
    /\ ed = NewEdit("none", 0)
    /\ pk = ClosedPicker
    /\ flow = [pc |-> "none"]
    /\ fz = [pc |-> "none"]
    /\ ov = [pc |-> "none"]
    /\ StepsIdle
    /\ contacts = <<>>
    /\ tokens = <<>>
    /\ rpc = "idle"
    /\ tokIdx = 0
    /\ chosen = <<>>
    /\ missing = <<>>
    /\ resolved = <<>>
    /\ sel = <<>>

\* list_flow: Enter on "Add"; list_add_flow lists the rosters and opens its menu
ListAddOpen ==
    /\ ed.pc = "returned"
    /\ ed.flows < MaxEdits
    /\ ed' = OpenMenu(NewEdit("add", ed.flows + 1), "Add to list",
                      Append(LabelOptions(disk), [kind |-> "new"]))
    /\ UNCHANGED <<termRows, termCols, pk, disk, flow, fz, ov, resolverVars, stepVars>>

\* list_flow: Enter on "Remove"; list_remove_flow opens its menu
ListRemoveOpen ==
    /\ ed.pc = "returned"
    /\ ed.flows < MaxEdits
    /\ ed' = OpenMenu(NewEdit("remove", ed.flows + 1), "Remove from list", LabelOptions(disk))
    /\ UNCHANGED <<termRows, termCols, pk, disk, flow, fz, ov, resolverVars, stepVars>>

\* overlay_menu: one key other than KEY_RESIZE
EditMenuKey(k) ==
    /\ ed.pc = "overlay_menu"
    /\ \E r \in { IF k = "Up"
                  THEN [e |-> EditMenuFrame([ed EXCEPT !.idx = Max(0, ed.idx - 1)]),
                        d |-> disk, p |-> pk]
                  ELSE IF k = "Down"
                  THEN [e |-> EditMenuFrame([ed EXCEPT !.idx = Min(Len(ed.options) - 1, ed.idx + 1)]),
                        d |-> disk, p |-> pk]
                  ELSE IF k = "Enter" THEN AfterMenu(ed, disk, ed.options[ed.idx + 1], termRows)
                  ELSE AfterMenu(ed, disk, [kind |-> "none"], termRows) } :
          ed' = r.e /\ disk' = r.d /\ pk' = r.p
    /\ UNCHANGED <<termRows, termCols, flow, fz, ov, resolverVars, stepVars>>

\* prompt_field / input_line: one key other than KEY_RESIZE
PromptKey(k) ==
    /\ ed.pc \in {"newlist", "name", "number", "alias"}
    /\ k \in EditChars => Len(ed.buf) < MaxField
    /\ \E il \in {input_line(ed.buf, k, PromptMaxLen(termCols))} :
          IF il.state = "editing"
          THEN /\ ed' = [ed EXCEPT !.buf = il.buf, !.last = NoReturn]
               /\ UNCHANGED <<disk, pk>>
          ELSE \E r \in {AfterPrompt([ed EXCEPT !.last = [buf |-> ed.buf, result |-> il.result,
                                                          redraw |-> il.redraw]],
                                     disk, il.result)} :
                  ed' = r.e /\ disk' = r.d /\ pk' = r.p
    /\ UNCHANGED <<termRows, termCols, flow, fz, ov, resolverVars, stepVars>>

\* list_remove_flow's contact_browser: Enter
EditBrowserEnter ==
    /\ ed.pc = "contact_browser"
    /\ pk.state = "frame"
    /\ \E q \in {OnEnter(pk)} :
          IF q.state = "returned"
          THEN \E r \in {AfterRemoveBrowser(ed, disk, q.result)} :
                  ed' = r.e /\ disk' = r.d /\ pk' = r.p
          ELSE /\ pk' = (IF q.state = "frame" THEN Frame(q, termRows) ELSE q)
               /\ UNCHANGED <<ed, disk>>
    /\ UNCHANGED <<termRows, termCols, flow, fz, ov, resolverVars, stepVars>>

\* list_remove_flow's contact_browser: Escape
EditBrowserEsc ==
    /\ ed.pc = "contact_browser"
    /\ pk.state = "frame"
    /\ \E r \in {AfterRemoveBrowser(ed, disk, OnEsc(pk).result)} :
          ed' = r.e /\ disk' = r.d /\ pk' = r.p
    /\ UNCHANGED <<termRows, termCols, flow, fz, ov, resolverVars, stepVars>>

\* show_message of the list flows: any key other than KEY_RESIZE, then return
EditShowKey ==
    /\ ed.pc = "show_message"
    /\ ed' = EditReturn([ed EXCEPT !.last = NoReturn], disk).e
    /\ UNCHANGED <<termRows, termCols, pk, disk, flow, fz, ov, resolverVars, stepVars>>

\* KEY_RESIZE read by the widget that is waiting for a key: input_line
\* returns None, the menus, the browser and the notices draw again
EditResize ==
    /\ ed.pc \notin {"none", "returned"}
    /\ \E size \in EditSizes :
          /\ termRows' = size[1]
          /\ termCols' = size[2]
          /\ IF ed.pc \in {"newlist", "name", "number", "alias"}
             THEN \E il \in {input_line(ed.buf, "Resize", PromptMaxLen(termCols))} :
                  \E r \in {AfterPrompt([ed EXCEPT !.last = [buf |-> ed.buf, result |-> il.result,
                                                             redraw |-> il.redraw]],
                                        disk, il.result)} :
                     ed' = r.e /\ disk' = r.d /\ pk' = r.p
             ELSE /\ ed' = [(IF ed.pc = "overlay_menu" THEN EditMenuFrame(ed) ELSE ed)
                            EXCEPT !.last = NoReturn]
                  /\ disk' = disk
                  /\ pk' = (IF pk.state = "frame" THEN Frame(pk, size[1]) ELSE pk)
    /\ UNCHANGED <<flow, fz, ov, resolverVars, stepVars>>

ListsNext ==
    \/ ListAddOpen
    \/ ListRemoveOpen
    \/ \E k \in {"Up", "Down", "Enter", "Esc"} : EditMenuKey(k)
    \/ \E k \in {"Enter", "Esc", "Backspace"} \cup EditChars : PromptKey(k)
    \/ PickerUp \/ PickerDown \/ PickerSpace
    \/ EditBrowserEnter \/ EditBrowserEsc \/ NoticeKey
    \/ EditShowKey
    \/ EditResize

SpecLists == ListsInit /\ [][ListsNext]_vars

-----------------------------------------------------------------------------
(* Claims about input_line and the list flows *)

\* t is b without its leading and trailing spaces
IsTrimOf(t, b) ==
    \E i \in 1..(Len(b) + 1) : \E j \in (i - 1)..Len(b) :
        /\ t = SubSeq(b, i, j)
        /\ \A q \in 1..(i - 1) : b[q] = " "
        /\ \A q \in (j + 1)..Len(b) : b[q] = " "
        /\ t # <<>> => (t[1] # " " /\ t[Len(t)] # " ")

\* The prompts of list_add_flow
Prompts == {"newlist", "name", "number", "alias"}

\* C22: input_line returns the buffer, trimmed, exactly when Enter is
\* pressed, and no value on Escape and on a resize, whatever was typed; the
\* resize also calls handle_resize; in the three cases the edit ends, and on
\* every other key it goes on.
C22_InputLineReturns ==
    [][ /\ PromptKey("Enter") =>
              /\ ed'.last.buf = ed.buf
              /\ ed'.last.result.kind = "text"
              /\ IsTrimOf(ed'.last.result.text, ed.buf)
              /\ ~ed'.last.redraw
        /\ PromptKey("Esc") =>
              /\ ed'.last.buf = ed.buf
              /\ ed'.last.result = [kind |-> "none"]
              /\ ~ed'.last.redraw
        /\ (EditResize /\ ed.pc \in Prompts) =>
              /\ ed'.last.buf = ed.buf
              /\ ed'.last.result = [kind |-> "none"]
              /\ ed'.last.redraw
        /\ (\E k \in EditChars \cup {"Backspace"} : PromptKey(k)) =>
              /\ ed'.last = NoReturn
              /\ ed'.pc = ed.pc
      ]_vars

\* C22 witness: Enter has returned a text that is not the buffer as typed
C22_Witness ==
    /\ ed.last.result.kind = "text"
    /\ ed.last.result.text # <<>>
    /\ ed.last.result.text # ed.last.buf

\* C23: in list_add_flow a contact is written to the roster only when the
\* name, number and alias prompts were all committed with Enter; Escape or a
\* resize at any of them ends the flow without writing the contact.
C23_PersistOnlyAfterThreeEnters ==
    (ed.pc = "show_message" /\ ed.title = "Added") => ed.last.result.kind = "text"

\* A call of core.write_contacts happens in this step
RosterWritten == Len(ed'.writes) > Len(ed.writes) \/ disk' # disk

\* C24: list_remove_flow writes the roster only when at least one contact
\* was selected in the browser and "Remove" is chosen in the confirm step;
\* Escape or "Cancel" at the list choice, the browser or the confirm step
\* ends the flow with the roster files unchanged.
C24_RemoveAfterConfirm ==
    [][ /\ (ed.action = "remove" /\ RosterWritten) =>
              /\ ed.pc = "overlay_menu"
              /\ ed.menu = "Confirm remove"
              /\ ed.chosen # <<>>
              /\ EditMenuKey("Enter")
              /\ ed.options[ed.idx + 1].kind = "yes"
        /\ (/\ ed.action = "remove"
            /\ \/ EditMenuKey("Esc")
               \/ EditBrowserEsc
               \/ (EditMenuKey("Enter") /\ ed.options[ed.idx + 1].kind = "none")) =>
              /\ disk' = disk
              /\ ed'.pc = "returned"
      ]_vars

\* C24 witness: the roster was written without the contacts chosen
C24_Witness ==
    /\ ed.action = "remove"
    /\ ed.pc = "show_message"
    /\ ed.title = "Removed"
    /\ ed.chosen # <<>>
    /\ Len(disk[ed.path]) < Len(ed.contacts)
    /\ Len(disk[ed.path]) > 0

\* No two contacts of a roster file have the same number
DistinctNumbers(rows) ==
    LET cs == read_contacts(rows)
    IN  \A i, j \in DOMAIN cs : cs[i].number = cs[j].number => i = j

\* C25: in list_add_flow, when the number entered, stripped of every
\* character but digits and "+", is the number of a contact of the chosen
\* roster, the notice is shown and the roster is not written; rosters
\* without duplicate numbers stay without duplicate numbers.
C25_DuplicateRejected ==
    /\ \A path \in DOMAIN disk : DistinctNumbers(disk[path])
    /\ (ed.action = "add" /\ ed.pc = "show_message" /\ ed.title \in {"Added", "Duplicate"}) =>
          LET before == IF ed.title = "Added"
                        THEN SubSeq(ed.contacts, 1, Len(ed.contacts) - 1)
                        ELSE ed.contacts
          IN  /\ ed.number = clean_number(ed.raw_number)
              /\ ed.title = "Duplicate" <=> \E i \in DOMAIN before : before[i].number = ed.number
              /\ ed.title = "Duplicate" => ed.writes = <<>>

\* C25 witness: the notice is shown for a number typed with a character
\* that is neither a digit nor "+"
C25_Witness ==
    /\ ed.action = "add"
    /\ ed.pc = "show_message"
    /\ ed.title = "Duplicate"
    /\ ed.raw_number # ed.number

-----------------------------------------------------------------------------
(* Claims about the errors and the report of the send flow *)

\* C26: with the delivery script absent when send_flow reaches dispatch, a
\* notice is shown and the flow returns to the landing menu; no exception
\* leaves send_messages or send_flow.
C26_NoExceptionEscapes == flow.pc # "raised"

\* C27: in the manual-entry branch, when the tokens typed resolve to no
\* contact, the notice is shown and, once it is dismissed, the flow is back
\* at the recipient-entry line, not at the landing menu.
C27_ZeroResolvedStays ==
    [][ (flow.pc = "show_message" /\ flow.title = "No recipients" /\ ShowMessageKey)
            => flow'.pc = "input_line" ]_vars

\* send_messages after its loop: what the "Sending" window holds when the
\* footer "Done. Press any key." is drawn. The loop wrote one line per
\* recipient, "OK name" or "FAIL name"; nothing counts them.
final_report(f) ==
    [footer |-> "Done. Press any key.",
     lines  |-> [i \in DOMAIN f.sent |-> [status |-> f.sent[i].result, name |-> f.resolved[i].name]],
     counts |-> [kind |-> "none"]]

\* The names of the recipients whose send returned not-ok, in dispatch order
FailedNames(f) ==
    LET failed == SelectSeq([i \in DOMAIN f.sent |-> [r |-> f.sent[i].result, name |-> f.resolved[i].name]],
                            LAMBDA x : x.r = "FAIL")
    IN  [i \in DOMAIN failed |-> failed[i].name]

\* C28: when the dispatch loop has finished, the final report states the
\* number of succeeded and of failed sends, the two sum to the number of
\* recipients, and it lists the names of exactly the failed recipients in
\* dispatch order.
C28_FinalReportCounts ==
    flow.pc = "done" =>
        LET report == final_report(flow)
        IN  /\ report.counts.kind = "counts"
            /\ report.counts.sent = Cardinality({ i \in DOMAIN flow.sent : flow.sent[i].result = "OK" })
            /\ report.counts.failed = Len(FailedNames(flow))
            /\ report.counts.sent + report.counts.failed = Len(flow.resolved)
            /\ report.failures = FailedNames(flow)

-----------------------------------------------------------------------------
(* ui/tui.py: make_overlay and the widgets that call it, with the curses
   calls they make outside safe_addstr *)

\* curses.newwin(nlines, ncols, begin_y, begin_x) on a screen of rows x cols:
\* curses.error for a negative argument; a size of 0 stands for "up to the
\* edge of the screen"
newwin(nlines, ncols, y, x, rows, cols) ==
    IF nlines < 0 \/ ncols < 0 \/ y < 0 \/ x < 0 THEN [kind |-> "error"]
    ELSE LET h == IF nlines = 0 THEN rows - y ELSE nlines
             w == IF ncols = 0 THEN cols - x ELSE ncols
         IN  IF h <= 0 \/ w <= 0 THEN [kind |-> "error"]
             ELSE [kind |-> "window", h |-> h, w |-> w, top |-> y, left |-> x]

\* win.derwin(nlines, ncols, begin_y, begin_x): curses.error for a negative
\* argument and for a region that leaves the parent window
derwin(win, nlines, ncols, y, x) ==
    IF nlines < 0 \/ ncols < 0 \/ y < 0 \/ x < 0 THEN [kind |-> "error"]
    ELSE LET h == IF nlines = 0 THEN win.h - y ELSE nlines
             w == IF ncols = 0 THEN win.w - x ELSE ncols
         IN  IF h <= 0 \/ w <= 0 \/ y + h > win.h \/ x + w > win.w THEN [kind |-> "error"]
             ELSE [kind |-> "window", h |-> h, w |-> w, top |-> win.top + y, left |-> win.left + x]

\* win.move(y, x): curses.error outside the window
move_ok(win, y, x) == y >= 0 /\ x >= 0 /\ y < win.h /\ x < win.w

\* TuiApp.make_overlay(height, width, title) on a terminal of rows x cols:
\* the overlay_rect recorded and the window created
make_overlay(height, width, rows, cols) ==
    LET h == Min(height, rows - 2)
        w == Min(width, cols - 2)
        top == Max(0, (rows - h) \div 2)
        left == Max(0, (cols - w) \div 2)
    IN  [rect |-> [top |-> top, left |-> left, height |-> h, width |-> w],
         win  |-> newwin(h, w, top, left, rows, cols)]

\* The widgets that open an overlay
Widgets ==
    {"overlay_menu", "show_message", "prompt_field", "input_multiline", "list_picker",
     "contact_browser"}

\* The widgets whose loop calls make_overlay again after KEY_RESIZE; the
\* editors return instead
Redrawing == {"overlay_menu", "show_message", "list_picker", "contact_browser"}

\* The size each widget asks make_overlay for (overlay_menu with the four
\* options of "Recipients", show_message with a title of 30 characters or less)
Requested(widget, rows, cols) ==
    IF widget = "overlay_menu" THEN [h |-> Min(12, 4 + 4), w |-> 32]
    ELSE IF widget = "show_message" THEN [h |-> 7, w |-> 40]
    ELSE IF widget = "prompt_field" THEN [h |-> 7, w |-> Min(70, cols - 6)]
    ELSE IF widget = "input_multiline" THEN [h |-> Min(16, rows - 4), w |-> Min(72, cols - 6)]
    ELSE IF widget = "list_picker" THEN [h |-> Min(12, rows - 4), w |-> Min(50, cols - 6)]
    ELSE [h |-> Min(20, rows - 4), w |-> Min(78, cols - 6)]

\* The widget up to its first getch: make_overlay, then the derwin of
\* input_multiline or the win.move of input_line; "raised" is a curses.error
\* nothing catches
Draw(widget, rows, cols) ==
    LET req == Requested(widget, rows, cols)
        mo == make_overlay(req.h, req.w, rows, cols)
        base == [pc |-> "drawn", widget |-> widget, rows |-> rows, cols |-> cols,
                 rect |-> mo.rect, win |-> mo.win]
    IN  IF mo.win.kind = "error" THEN [base EXCEPT !.pc = "raised"]
        ELSE IF widget = "input_multiline"
                /\ derwin(mo.win, mo.rect.height - 4, mo.rect.width - 4, 2, 2).kind = "error"
        THEN [base EXCEPT !.pc = "raised"]
        ELSE IF widget = "prompt_field" /\ ~move_ok(mo.win, 3, 2)
        THEN [base EXCEPT !.pc = "raised"]
        ELSE base

\* The terminal sizes the overlays are drawn on
OverlayRows == {1, 2, 3, 4, 5, 7, 8, 24}
OverlayCols == {1, 2, 9, 10, 80}

OverlayInit ==
    /\ termRows \in OverlayRows
    /\ termCols \in OverlayCols
    /\ ov = [pc |-> "landing"]
    /\ StepsIdle
    /\ pk = ClosedPicker
    /\ flow = [pc |-> "none"]
    /\ fz = [pc |-> "none"]
    /\ ed = [pc |-> "none"]
    /\ disk = <<>>
    /\ contacts = <<>>
    /\ tokens = <<>>
    /\ rpc = "idle"
    /\ tokIdx = 0
    /\ chosen = <<>>
    /\ missing = <<>>
    /\ resolved = <<>>
    /\ sel = <<>>

\* A flow opens a widget
OverlayOpen ==
    /\ ov.pc = "landing"
    /\ \E widget \in Widgets : ov' = Draw(widget, termRows, termCols)
    /\ UNCHANGED <<termRows, termCols, pk, flow, fz, ed, disk, resolverVars, stepVars>>

\* The widget returns on a key
OverlayClose ==
    /\ ov.pc = "drawn"
    /\ ov' = [pc |-> "landing"]
    /\ UNCHANGED <<termRows, termCols, pk, flow, fz, ed, disk, resolverVars, stepVars>>

\* KEY_RESIZE: handle_resize, then the loop of the widget calls make_overlay
\* again, or the editor returns
OverlayResize ==
    /\ ov.pc = "drawn"
    /\ termRows' \in OverlayRows
    /\ termCols' \in OverlayCols
    /\ ov' = IF ov.widget \in Redrawing THEN Draw(ov.widget, termRows', termCols')
             ELSE [pc |-> "landing"]
    /\ UNCHANGED <<pk, flow, fz, ed, disk, resolverVars, stepVars>>

\* KEY_RESIZE read by the loop of run
LandingResize ==
    /\ ov.pc = "landing"
    /\ termRows' \in OverlayRows
    /\ termCols' \in OverlayCols
    /\ UNCHANGED <<ov, pk, flow, fz, ed, disk, resolverVars, stepVars>>

OverlayNext == OverlayOpen \/ OverlayClose \/ OverlayResize \/ LandingResize

SpecOverlay == OverlayInit /\ [][OverlayNext]_vars

\* C29: the rectangle make_overlay records and creates has height <= rows - 2
\* and width <= cols - 2, top = max(0, (rows - height) // 2) and
\* left = max(0, (cols - width) // 2), for the terminal size read at that
\* call: after a resize the overlay drawn again uses the new size.
C29_OverlayWithinTerminal ==
    ov.pc = "drawn" =>
        /\ ov.rows = termRows /\ ov.cols = termCols
        /\ ov.rect.height <= termRows - 2
        /\ ov.rect.width <= termCols - 2
        /\ ov.rect.top = Max(0, (termRows - ov.rect.height) \div 2)
        /\ ov.rect.left = Max(0, (termCols - ov.rect.width) \div 2)
        /\ ov.win.h <= termRows - 2
        /\ ov.win.w <= termCols - 2
        /\ ov.win.top = Max(0, (termRows - ov.win.h) \div 2)
        /\ ov.win.left = Max(0, (termCols - ov.win.w) \div 2)

\* C30: on every terminal size opening and drawing an overlay never raises.
C30_DrawNeverRaises == ov.pc # "raised"

-----------------------------------------------------------------------------
(* engine/core.py: write_contacts followed statement by statement, each
   statement either completing or raising *)

\* Longest contact list handed to write_contacts
MaxRoster == 2

\* A file that does not exist, and a file holding a header line and rows
Absent == [kind |-> "absent"]
FileOf(header, rows) == [kind |-> "file", header |-> header, rows |-> rows]

\* open(csv_path, "w"): the roster itself is truncated
open_in_place(w) == [w EXCEPT !.file = FileOf(FALSE, <<>>), !.pc = "header"]

\* line 115-116: open(tmp, "w") creates or truncates the temporary file
open_tmp(w) == [w EXCEPT !.tmp = FileOf(FALSE, <<>>), !.pc = "header"]

\* line 117-118: writer.writeheader()
writeheader(w) == [w EXCEPT !.tmp = FileOf(TRUE, <<>>), !.pc = "rows"]

\* line 119-126: one writer.writerow of the loop over the sorted contacts
writerow(w) ==
    [w EXCEPT !.tmp = FileOf(w.tmp.header, Append(w.tmp.rows, w.sorted[Len(w.tmp.rows) + 1]))]

\* line 129: os.replace(tmp, csv_path)
replace(w) == [w EXCEPT !.file = w.tmp, !.tmp = Absent, !.pc = "done"]

\* The statement being executed raises: the with block closes the file and
\* the exception leaves write_contacts
raise(w) == [w EXCEPT !.pc = "raised"]

\* The contacts handed to write_contacts and the rosters found on disk
WritePool ==
    { make_contact(<<"b">>, <<"1">>, <<>>),
      make_contact(<<"A">>, <<"2">>, <<"x", ",", "y">>),
      make_contact(<<"a">>, <<"3">>, <<>>) }
WriteLists == UNION { [1..n -> WritePool] : n \in 0..MaxRoster }
PreviousFiles ==
    { Absent, FileOf(TRUE, <<>>),
      FileOf(TRUE, <<[name |-> <<"A">>, number |-> <<"2">>, alias |-> <<>>]>>) }

WriteInit ==
    /\ \E cs \in WriteLists, prev \in PreviousFiles, old \in {Absent, FileOf(TRUE, <<>>)} :
          wr = [pc |-> "mkdir", contacts |-> cs, sorted |-> written_rows(cs),
                prev |-> prev, file |-> prev, tmp |-> old]
    /\ nm = [pc |-> "none"]
    /\ er = [pc |-> "none"]
    /\ inp = [pc |-> "none"]
    /\ rz = [pc |-> "none"]
    /\ sp = [pc |-> "none"]
    /\ termRows = 24
    /\ termCols = 80
    /\ pk = ClosedPicker
    /\ flow = [pc |-> "none"]
    /\ fz = [pc |-> "none"]
    /\ ed = [pc |-> "none"]
    /\ disk = <<>>
    /\ ov = [pc |-> "none"]
    /\ contacts = <<>>
    /\ tokens = <<>>
    /\ rpc = "idle"
    /\ tokIdx = 0
    /\ chosen = <<>>
    /\ missing = <<>>
    /\ resolved = <<>>
    /\ sel = <<>>

WriteFrame == UNCHANGED <<nm, er, inp, rz, sp, uiVars, resolverVars>>

\* line 114: csv_path.parent.mkdir(parents=True, exist_ok=True)
WriteMkdir ==
    /\ wr.pc = "mkdir"
    /\ wr' = [wr EXCEPT !.pc = "open"]
    /\ WriteFrame

\* line 115-116
WriteOpen ==
    /\ wr.pc = "open"
    /\ wr' = open_tmp(wr)
    /\ WriteFrame

\* line 117-118
WriteHeader ==
    /\ wr.pc = "header"
    /\ wr' = writeheader(wr)
    /\ WriteFrame

\* line 119-126
WriteRow ==
    /\ wr.pc = "rows"
    /\ Len(wr.tmp.rows) < Len(wr.sorted)
    /\ wr' = writerow(wr)
    /\ WriteFrame

\* line 127-128: f.flush() and os.fsync(f.fileno()), then the file is closed
WriteSync ==
    /\ wr.pc = "rows"
    /\ Len(wr.tmp.rows) = Len(wr.sorted)
    /\ wr' = [wr EXCEPT !.pc = "replace"]
    /\ WriteFrame

\* line 129
WriteReplace ==
    /\ wr.pc = "replace"
    /\ wr' = replace(wr)
    /\ WriteFrame

\* Any statement raises (OSError, KeyboardInterrupt) instead of completing
WriteRaise ==
    /\ wr.pc \in {"mkdir", "open", "header", "rows", "replace"}
    /\ wr' = raise(wr)
    /\ WriteFrame

WriteNext ==
    \/ WriteMkdir \/ WriteOpen \/ WriteHeader \/ WriteRow \/ WriteSync
    \/ WriteReplace \/ WriteRaise

SpecWrite == WriteInit /\ [][WriteNext]_vars

\* The rows of the given contacts, in the given order
GivenRows(cs) ==
    [i \in DOMAIN cs |->
        [name |-> cs[i].name, number |-> cs[i].number, alias |-> JoinComma(cs[i].aliases)]]

\* rows hold the same entries as given, each as many times
SameEntries(rows, given) ==
    /\ Len(rows) = Len(given)
    /\ \A r \in {rows[i] : i \in DOMAIN rows} \cup {given[i] : i \in DOMAIN given} :
          Cardinality({i \in DOMAIN rows : rows[i] = r})
              = Cardinality({i \in DOMAIN given : given[i] = r})

\* rows are in ascending order of the lowercased name
SortedByLowerName(rows) ==
    \A i \in DOMAIN rows : \A j \in DOMAIN rows :
        i < j => ~StrLess(Lower(rows[j].name), Lower(rows[i].name))

\* The complete new contents for the contacts cs
IsNewContents(f, cs) ==
    /\ f.kind = "file"
    /\ f.header
    /\ SameEntries(f.rows, GivenRows(cs))
    /\ SortedByLowerName(f.rows)

\* C31: at every statement of core.write_contacts, and after any of them
\* raised, the roster file holds the complete previous contents or the
\* complete new contents, the given contacts sorted by lowercased name; after
\* os.replace it holds the new contents.
C31_WriteIsAtomic ==
    wr.pc # "none" =>
        /\ wr.file = wr.prev \/ IsNewContents(wr.file, wr.contacts)
        /\ wr.pc = "done" => IsNewContents(wr.file, wr.contacts)

\* C31 witness: a list given out of order replaced a roster with other rows
C31_Witness ==
    /\ wr.pc = "done"
    /\ wr.file # wr.prev
    /\ Len(wr.contacts) = 2
    /\ GivenRows(wr.contacts) # wr.file.rows

\* C31 witness of a failure: a statement raised after rows were written
C31_RaisedWitness ==
    /\ wr.pc = "raised"
    /\ wr.tmp.kind = "file"
    /\ wr.tmp.rows # <<>>
    /\ wr.file = wr.prev

-----------------------------------------------------------------------------
(* Contact.number as core.load_contacts and list_add_flow build it from a
   raw number string *)

\* Longest raw number string
MaxRaw == 3

\* The characters of the raw number strings
NumberChars == {"1", "+", "-", " ", "U+0663"}
RawNumbers == UNION { [1..n -> NumberChars] : n \in 0..MaxRaw }

NumberInit ==
    /\ \E raw \in RawNumbers : nm = [pc |-> "raw", raw |-> raw]
    /\ wr = [pc |-> "none"]
    /\ er = [pc |-> "none"]
    /\ inp = [pc |-> "none"]
    /\ rz = [pc |-> "none"]
    /\ sp = [pc |-> "none"]
    /\ termRows = 24
    /\ termCols = 80
    /\ pk = ClosedPicker
    /\ flow = [pc |-> "none"]
    /\ fz = [pc |-> "none"]
    /\ ed = [pc |-> "none"]
    /\ disk = <<>>
    /\ ov = [pc |-> "none"]
    /\ contacts = <<>>
    /\ tokens = <<>>
    /\ rpc = "idle"
    /\ tokIdx = 0
    /\ chosen = <<>>
    /\ missing = <<>>
    /\ resolved = <<>>
    /\ sel = <<>>

NumberFrame == UNCHANGED <<wr, er, inp, rz, sp, uiVars, resolverVars>>

\* core.load_contacts reads a row whose number column is nm.raw: the row is
\* skipped when the stripped column is empty, else its Contact is appended
NumberLoad ==
    /\ nm.pc = "raw"
    /\ nm' = IF Strip(nm.raw) = <<>>
             THEN [pc |-> "skipped", raw |-> nm.raw]
             ELSE [pc |-> "loaded", raw |-> nm.raw,
                   contact |-> read_contacts(<<[name |-> <<"A">>, number |-> nm.raw,
                                                alias |-> <<>>]>>)[1]]
    /\ NumberFrame

\* list_add_flow: prompt_field returned nm.raw stripped; the number is
\* rejected when nothing is left of it, else compared and stored
NumberAdd ==
    /\ nm.pc = "raw"
    /\ LET raw_number == Strip(nm.raw)
           number == clean_number(raw_number)
       IN  nm' = IF number = <<>>
                 THEN [pc |-> "invalid", raw |-> nm.raw]
                 ELSE [pc |-> "added", raw |-> nm.raw,
                       contact |-> make_contact(<<"A">>, number, <<>>)]
    /\ NumberFrame

NumberNext == NumberLoad \/ NumberAdd

SpecNumber == NumberInit /\ [][NumberNext]_vars

\* ASCII digits with at most one '+', which comes first
IsNormalizedNumber(n) ==
    /\ \A i \in DOMAIN n : n[i] \in {"0","1","2","3","4","5","6","7","8","9","+"}
    /\ \A i \in DOMAIN n : n[i] = "+" => i = 1

\* C32: every Contact.number built by load_contacts or by list_add_flow is
\* made of ASCII digits with at most one '+', which if present comes first.
C32_NumberNormalized ==
    nm.pc \in {"loaded", "added"} => IsNormalizedNumber(nm.contact.number)

\* C32, with raw numbers whose '+' signs all lead and whose digits are ASCII
C32_PlainRawNormalized ==
    (/\ nm.pc \in {"loaded", "added"}
     /\ \A i \in DOMAIN nm.raw : nm.raw[i] # "U+0663"
     /\ Cardinality({i \in DOMAIN nm.raw : nm.raw[i] = "+"}) <= 1
     /\ \A i \in DOMAIN nm.raw : nm.raw[i] = "+" =>
            \A j \in 1..(i - 1) : nm.raw[j] \notin AsciiDigits)
        => IsNormalizedNumber(nm.contact.number)

-----------------------------------------------------------------------------
(* engine/edit_list.py: resolve_tokens called on its own *)

\* sc > best_sc on the (tier, tiebreak) tuples
ScoreGreater(a, b) == a[1] > b[1] \/ (a[1] = b[1] /\ a[2] > b[2])

\* The inner loop of edit_list.resolve_tokens over people[i..]: the index of
\* best (0 for None) and best_sc
RECURSIVE best_from(_, _, _, _, _)
best_from(tok, people, i, best, best_sc) ==
    IF i > Len(people) THEN [best |-> best, best_sc |-> best_sc]
    ELSE LET sc == score_match(tok, people[i])
         IN  IF ScoreGreater(sc, best_sc)
             THEN best_from(tok, people, i + 1, i, sc)
             ELSE best_from(tok, people, i + 1, best, best_sc)

\* The outer loop of edit_list.resolve_tokens over tokens[i..]
RECURSIVE edit_list_resolve(_, _, _, _)
edit_list_resolve(toks, people, i, acc) ==
    IF i > Len(toks) THEN acc
    ELSE LET b == best_from(toks[i], people, 1, 0, <<-1, 0>>)
         IN  edit_list_resolve(toks, people, i + 1,
                IF b.best_sc[1] < 0
                THEN [acc EXCEPT !.missing = Append(@, toks[i]), !.best = Append(@, 0)]
                ELSE IF people[b.best].number \notin acc.seen_numbers
                THEN [acc EXCEPT !.seen_numbers = @ \cup {people[b.best].number},
                                 !.chosen = Append(@, people[b.best]),
                                 !.best = Append(@, b.best)]
                ELSE [acc EXCEPT !.best = Append(@, b.best)])

\* edit_list.resolve_tokens; best lists, token by token, the index of the
\* contact the inner loop ended on
edit_list_resolve_tokens(toks, people) ==
    edit_list_resolve(toks, people, 1,
                      [chosen |-> <<>>, missing |-> <<>>, seen_numbers |-> {}, best |-> <<>>])

EditResolveInit ==
    /\ \E people \in Rosters, toks \in TokenLists :
          er = [pc |-> "start", tokens |-> toks, people |-> people]
    /\ wr = [pc |-> "none"]
    /\ nm = [pc |-> "none"]
    /\ inp = [pc |-> "none"]
    /\ rz = [pc |-> "none"]
    /\ sp = [pc |-> "none"]
    /\ termRows = 24
    /\ termCols = 80
    /\ pk = ClosedPicker
    /\ flow = [pc |-> "none"]
    /\ fz = [pc |-> "none"]
    /\ ed = [pc |-> "none"]
    /\ disk = <<>>
    /\ ov = [pc |-> "none"]
    /\ contacts = <<>>
    /\ tokens = <<>>
    /\ rpc = "idle"
    /\ tokIdx = 0
    /\ chosen = <<>>
    /\ missing = <<>>
    /\ resolved = <<>>
    /\ sel = <<>>

\* chosen, missing = resolve_tokens(tokens, people)
EditResolveCall ==
    /\ er.pc = "start"
    /\ LET r == edit_list_resolve_tokens(er.tokens, er.people)
       IN  er' = [pc |-> "done", tokens |-> er.tokens, people |-> er.people,
                  chosen |-> r.chosen, missing |-> r.missing, best |-> r.best]
    /\ UNCHANGED <<wr, nm, inp, rz, sp, uiVars, resolverVars>>

EditResolveNext == EditResolveCall

SpecEditResolve == EditResolveInit /\ [][EditResolveNext]_vars

\* The tier of the token for the contact, -1 when it does not match
TierOf(tok, c) == score_match(tok, c)[1]

\* The first contact of the roster at the highest tier any contact reaches
FirstAtBestTier(tok, people) ==
    LET top == CHOOSE t \in {TierOf(tok, people[i]) : i \in DOMAIN people} :
                   \A i \in DOMAIN people : TierOf(tok, people[i]) <= t
    IN  CHOOSE i \in DOMAIN people :
            /\ TierOf(tok, people[i]) = top
            /\ \A j \in 1..(i - 1) : TierOf(tok, people[j]) < top

\* C33: a token matched by some contact selects the first contact of the
\* roster among those at the highest tier, whatever the name lengths.
C33_FirstAtHighestTier ==
    er.pc = "done" =>
        \A k \in DOMAIN er.tokens :
            (\E i \in DOMAIN er.people : TierOf(er.tokens[k], er.people[i]) >= 0)
                => er.best[k] = FirstAtBestTier(er.tokens[k], er.people)

\* C33, side check: the selected contact is at the highest tier, and among
\* the contacts of that tier it is the first with the longest name
C33_LongestAtHighestTier ==
    er.pc = "done" =>
        \A k \in DOMAIN er.tokens :
            (\E i \in DOMAIN er.people : TierOf(er.tokens[k], er.people[i]) >= 0)
                => LET b == er.best[k]
                       sb == score_match(er.tokens[k], er.people[b])
                   IN  /\ b \in DOMAIN er.people
                       /\ \A i \in DOMAIN er.people :
                              LET si == score_match(er.tokens[k], er.people[i])
                              IN  /\ ~ScoreGreater(si, sb)
                                  /\ (si = sb => b <= i)

-----------------------------------------------------------------------------
(* Claims about the Up and Down keys of list_picker and contact_browser *)

\* C34: Up/k lowers idx by exactly one unless it is 0, Down/j raises it by
\* exactly one unless it is the last index of the filtered list, neither
\* changes the query or the selected set, and in every drawn frame
\* 0 <= idx <= max(0, len(filtered) - 1).
C34_UpDownMoveByOne ==
    /\ [](pk.state = "frame" => 0 <= pk.idx /\ pk.idx <= Max(0, Len(pk.filtered) - 1))
    /\ [][PickerUp =>
            /\ pk'.state = "frame"
            /\ pk'.idx = (IF pk.idx = 0 THEN 0 ELSE pk.idx - 1)
            /\ pk'.query = pk.query /\ pk'.selected = pk.selected]_vars
    /\ [][PickerDown =>
            /\ pk'.state = "frame"
            /\ pk'.idx = (IF pk.idx >= Len(pk.filtered) - 1 THEN pk.idx ELSE pk.idx + 1)
            /\ pk'.query = pk.query /\ pk'.selected = pk.selected]_vars

\* C34 witness: with a query typed and an entry selected, Down was pressed
\* up to the last entry of a filtered list of three or more
C34_Witness ==
    /\ pk.state = "frame"
    /\ pk.query # <<>>
    /\ pk.selected # {}
    /\ Len(pk.filtered) >= 3
    /\ pk.idx = Len(pk.filtered) - 1

-----------------------------------------------------------------------------
(* ui/tui.py: input_line with its cursor, called by prompt_field *)

\* initial[:max_len]
PyPrefix(s, n) ==
    IF n >= 0 THEN SubSeq(s, 1, Min(n, Len(s))) ELSE SubSeq(s, 1, Max(0, Len(s) + n))

\* The keys read by getch: Enter, Esc, Backspace, Resize, a key outside
\* 32..126 and the printable characters
Printable == {"a", "b"}
InputKeys == {"Enter", "Esc", "Backspace", "Resize", "KEY_LEFT"} \cup Printable

\* The loop of input_line appending whatever the length
input_line_loop_unbounded(buf, pos, k, max_len) ==
    IF k = "Resize"
    THEN [pc |-> "returned", buf |-> buf, pos |-> pos, result |-> [kind |-> "none"]]
    ELSE IF k = "Enter"
    THEN [pc |-> "returned", buf |-> buf, pos |-> pos,
          result |-> [kind |-> "text", text |-> Strip(buf)]]
    ELSE IF k = "Esc"
    THEN [pc |-> "returned", buf |-> buf, pos |-> pos, result |-> [kind |-> "none"]]
    ELSE IF k = "Backspace"
    THEN IF pos > 0
         THEN [pc |-> "editing", buf |-> SubSeq(buf, 1, Len(buf) - 1), pos |-> pos - 1,
               result |-> [kind |-> "pending"]]
         ELSE [pc |-> "editing", buf |-> buf, pos |-> pos, result |-> [kind |-> "pending"]]
    ELSE IF k \in Printable
    THEN [pc |-> "editing", buf |-> Append(buf, k), pos |-> pos + 1,
          result |-> [kind |-> "pending"]]
    ELSE [pc |-> "editing", buf |-> buf, pos |-> pos, result |-> [kind |-> "pending"]]

\* TuiApp.input_line, line 232-252: one pass of the loop on the key k, with
\* the cursor pos
input_line_loop(buf, pos, k, max_len) ==
    IF k = "Resize"
    THEN [pc |-> "returned", buf |-> buf, pos |-> pos, result |-> [kind |-> "none"]]
    ELSE IF k = "Enter"
    THEN [pc |-> "returned", buf |-> buf, pos |-> pos,
          result |-> [kind |-> "text", text |-> Strip(buf)]]
    ELSE IF k = "Esc"
    THEN [pc |-> "returned", buf |-> buf, pos |-> pos, result |-> [kind |-> "none"]]
    ELSE IF k = "Backspace"
    THEN IF pos > 0
         THEN [pc |-> "editing", buf |-> SubSeq(buf, 1, Len(buf) - 1), pos |-> pos - 1,
               result |-> [kind |-> "pending"]]
         ELSE [pc |-> "editing", buf |-> buf, pos |-> pos, result |-> [kind |-> "pending"]]
    ELSE IF k \in Printable /\ pos < max_len
    THEN [pc |-> "editing", buf |-> Append(buf, k), pos |-> pos + 1,
          result |-> [kind |-> "pending"]]
    ELSE [pc |-> "editing", buf |-> buf, pos |-> pos, result |-> [kind |-> "pending"]]

\* The widths of the terminals prompt_field is opened on
InputCols == {6, 8, 10, 11, 12, 13}

InputInit ==
    /\ termRows = 24
    /\ termCols \in InputCols
    /\ inp = [pc |-> "call"]
    /\ wr = [pc |-> "none"]
    /\ nm = [pc |-> "none"]
    /\ er = [pc |-> "none"]
    /\ rz = [pc |-> "none"]
    /\ sp = [pc |-> "none"]
    /\ pk = ClosedPicker
    /\ flow = [pc |-> "none"]
    /\ fz = [pc |-> "none"]
    /\ ed = [pc |-> "none"]
    /\ disk = <<>>
    /\ ov = [pc |-> "none"]
    /\ contacts = <<>>
    /\ tokens = <<>>
    /\ rpc = "idle"
    /\ tokIdx = 0
    /\ chosen = <<>>
    /\ missing = <<>>
    /\ resolved = <<>>
    /\ sel = <<>>

InputFrame == UNCHANGED <<wr, nm, er, rz, sp, termRows, termCols, pk, flow, fz, ed, disk,
                          resolverVars>>

\* prompt_field: make_overlay(7, width, title), then input_line(win, 3, 2,
\* width - 4) up to its first win.move
InputOpen ==
    /\ inp.pc = "call"
    /\ ov' = Draw("prompt_field", termRows, termCols)
    /\ inp' = IF ov'.pc = "raised" THEN [pc |-> "raised"]
              ELSE LET max_len == PromptMaxLen(termCols)
                       buf == PyPrefix(<<>>, max_len)
                   IN  [pc |-> "editing", max_len |-> max_len, buf |-> buf,
                        pos |-> Len(buf), key |-> "", result |-> [kind |-> "pending"]]
    /\ InputFrame

\* getch returns k; the next win.move(y, x + pos) is inside the window
InputKey(k) ==
    /\ inp.pc = "editing"
    /\ LET r == input_line_loop(inp.buf, inp.pos, k, inp.max_len)
       IN  inp' = [pc |-> IF r.pc = "editing" /\ ~move_ok(ov.win, 3, 2 + r.pos)
                          THEN "raised" ELSE r.pc,
                   max_len |-> inp.max_len, buf |-> r.buf, pos |-> r.pos, key |-> k,
                   result |-> r.result]
    /\ UNCHANGED ov
    /\ InputFrame

InputNext == InputOpen \/ \E k \in InputKeys : InputKey(k)

SpecInput == InputInit /\ [][InputNext]_vars

\* What C35 says of the keys: a printable character is appended only below
\* max_len and is otherwise ignored, Backspace removes the last character
\* and does nothing on an empty buffer, other keys leave the buffer alone
KeysEditBuffer ==
    [][\A k \in InputKeys : InputKey(k) =>
          /\ inp'.pc # "raised"
          /\ inp'.buf = (IF k \in Printable
                         THEN IF Len(inp.buf) < inp.max_len THEN Append(inp.buf, k) ELSE inp.buf
                         ELSE IF k = "Backspace" /\ inp.buf # <<>>
                         THEN SubSeq(inp.buf, 1, Len(inp.buf) - 1)
                         ELSE inp.buf)]_vars

\* C35 as stated: after any sequence of keys len(buf) <= max_len and
\* pos = len(buf), and the keys edit the buffer as said.
C35_BufferWithinMaxLen ==
    /\ [](inp.pc \in {"editing", "returned"} =>
             Len(inp.buf) <= inp.max_len /\ inp.pos = Len(inp.buf))
    /\ KeysEditBuffer

\* C35 amended: after any sequence of keys len(buf) <= max(0, max_len) and
\* pos = len(buf), and the keys edit the buffer as said.
C35_BufferWithinMaxLenOrEmpty ==
    /\ [](inp.pc \in {"editing", "returned"} =>
             Len(inp.buf) <= Max(0, inp.max_len) /\ inp.pos = Len(inp.buf))
    /\ KeysEditBuffer

\* C35 witness: the buffer is full and the printable key read last was ignored
C35_Witness ==
    /\ inp.pc = "editing"
    /\ inp.max_len >= 2
    /\ Len(inp.buf) = inp.max_len
    /\ inp.key \in Printable
    /\ inp.buf[Len(inp.buf)] # inp.key

-----------------------------------------------------------------------------
(* Claims about the recipients send_flow dispatches to *)

\* C36: in a run of send_flow core.send_message is called at most once per
\* distinct contact number, in each recipient mode, also when several picked
\* rosters or several typed tokens refer to the same number.
C36_OncePerNumber ==
    flow.pc # "none" =>
        \A i \in DOMAIN SentNumbers : \A j \in DOMAIN SentNumbers :
            i # j => SentNumbers[i] # SentNumbers[j]

\* C36 witness: two picked rosters hold the same number, and every resolved
\* recipient has had its call
C36_Witness ==
    /\ flow.pc = "done"
    /\ Len(flow.picked) >= 2
    /\ \E i \in DOMAIN flow.picked : \E j \in DOMAIN flow.picked :
          /\ i # j
          /\ \E a \in DOMAIN load_contacts(flow.picked[i].path) :
                \E b \in DOMAIN load_contacts(flow.picked[j].path) :
                    load_contacts(flow.picked[i].path)[a].number
                        = load_contacts(flow.picked[j].path)[b].number
    /\ Len(flow.sent) = Len(flow.resolved)
    /\ Len(flow.sent) >= 2

-----------------------------------------------------------------------------
(* ui/tui.py: the landing loop of run, statement by statement, with the
   SIGWINCH handler _on_resize running between any two statements *)

\* TuiApp.__init__: menu_items
menu_items ==
    << [label |-> "Send",     hotkey |-> "s", action |-> "send_flow"],
       [label |-> "Drafts",   hotkey |-> "d", action |-> "not_implemented"],
       [label |-> "Schedule", hotkey |-> "S", action |-> "not_implemented"],
       [label |-> "Lists",    hotkey |-> "l", action |-> "list_flow"],
       [label |-> "Help",     hotkey |-> "h", action |-> "show_help"],
       [label |-> "Quit",     hotkey |-> "q", action |-> "quit_app" ] >>

\* The keys getch returns to the loop; "x" is a character that is no hotkey
LandingKeys ==
    {"s", "d", "S", "l", "h", "q", "k", "j", "x", "KEY_UP", "KEY_DOWN", "Enter", "Esc",
     "KEY_RESIZE"}

\* No item was invoked
NoCall == [label |-> "", action |-> ""]

\* The first item whose hotkey is the key exactly as displayed
match_exact(key) ==
    LET hits == { i \in DOMAIN menu_items : key = menu_items[i].hotkey }
    IN  IF hits = {} THEN 0 ELSE CHOOSE i \in hits : \A j \in hits : i <= j

\* line 150-155: key = chr(ch).lower(); the first item with
\* key == hotkey.lower(), 0 when there is none
match_hotkey(key) ==
    LET hits == { i \in DOMAIN menu_items : LowerChar(key) = LowerChar(menu_items[i].hotkey) }
    IN  IF hits = {} THEN 0 ELSE CHOOSE i \in hits : \A j \in hits : i <= j

\* action(); self.draw_landing() for item i: quit_app clears running, the
\* other actions run their flow and return
call_item(r, i) ==
    [r EXCEPT !.called = [label |-> menu_items[i].label, action |-> menu_items[i].action],
              !.running = IF menu_items[i].action = "quit_app" THEN FALSE ELSE r.running,
              !.pc = "while"]

\* handle_resize returning with needs_redraw cleared
handle_resize_clears(r) == [r EXCEPT !.pc = "while", !.needs_redraw = FALSE]

\* handle_resize returns to the loop: both of its calls are followed by the
\* test of while self.running
handle_resize_returns(r) == [r EXCEPT !.pc = "while"]

\* line 119-155: the statements after getch returned the key k
dispatch(r, k) ==
    LET r0 == [r EXCEPT !.key = k, !.called = NoCall]
    IN  IF k = "KEY_RESIZE" THEN [r0 EXCEPT !.pc = "handle_resize", !.pending = FALSE]
        ELSE IF k = "Esc" THEN [r0 EXCEPT !.running = FALSE, !.pc = "while"]
        ELSE IF k \in {"KEY_UP", "k"}
        THEN [r0 EXCEPT !.menu_idx = Max(0, r.menu_idx - 1), !.pc = "while"]
        ELSE IF k \in {"KEY_DOWN", "j"}
        THEN [r0 EXCEPT !.menu_idx = Min(Len(menu_items) - 1, r.menu_idx + 1), !.pc = "while"]
        ELSE IF k = "Enter" THEN call_item(r0, r.menu_idx + 1)
        ELSE IF match_hotkey(k) # 0 THEN call_item(r0, match_hotkey(k))
        ELSE [r0 EXCEPT !.pc = "while"]

RunInit ==
    /\ rz = [pc |-> "while", running |-> TRUE, needs_redraw |-> FALSE, pending |-> FALSE,
             menu_idx |-> 0, key |-> "", called |-> NoCall]
    /\ wr = [pc |-> "none"]
    /\ nm = [pc |-> "none"]
    /\ er = [pc |-> "none"]
    /\ inp = [pc |-> "none"]
    /\ sp = [pc |-> "none"]
    /\ termRows = 24
    /\ termCols = 80
    /\ pk = ClosedPicker
    /\ flow = [pc |-> "none"]
    /\ fz = [pc |-> "none"]
    /\ ed = [pc |-> "none"]
    /\ disk = <<>>
    /\ ov = [pc |-> "none"]
    /\ contacts = <<>>
    /\ tokens = <<>>
    /\ rpc = "idle"
    /\ tokIdx = 0
    /\ chosen = <<>>
    /\ missing = <<>>
    /\ resolved = <<>>
    /\ sel = <<>>

RunFrame == UNCHANGED <<wr, nm, er, inp, sp, uiVars, resolverVars>>

\* line 59-60: _on_resize runs; pending records that no handle_resize has
\* started since
RunSignal ==
    /\ rz.pc \in {"while", "test", "clear", "redraw", "resizing", "getch", "handle_resize"}
    /\ rz' = [rz EXCEPT !.needs_redraw = TRUE, !.pending = TRUE]
    /\ RunFrame

\* line 120: while self.running
RunWhile ==
    /\ rz.pc = "while"
    /\ rz' = [rz EXCEPT !.pc = IF rz.running THEN "test" ELSE "exit"]
    /\ RunFrame

\* line 121: if self.needs_redraw
RunTest ==
    /\ rz.pc = "test"
    /\ rz' = [rz EXCEPT !.pc = IF rz.needs_redraw THEN "clear" ELSE "getch"]
    /\ RunFrame

\* line 122: self.needs_redraw = False
RunClear ==
    /\ rz.pc = "clear"
    /\ rz' = [rz EXCEPT !.needs_redraw = FALSE, !.pc = "redraw"]
    /\ RunFrame

\* line 123: self.handle_resize() is entered
RunRedraw ==
    /\ rz.pc = "redraw"
    /\ rz' = [rz EXCEPT !.pending = FALSE, !.pc = "resizing"]
    /\ RunFrame

\* line 107-115: handle_resize runs to its end, called from line 123 (then
\* getch is next) or from line 128 (then continue)
RunResized ==
    \/ /\ rz.pc = "resizing"
       /\ rz' = [handle_resize_returns(rz) EXCEPT !.pc = "getch"]
       /\ RunFrame
    \/ /\ rz.pc = "handle_resize"
       /\ rz' = handle_resize_returns(rz)
       /\ RunFrame

\* line 124-127: getch returns -1 (nodelay): sleep and continue
RunIdle ==
    /\ rz.pc = "getch"
    /\ rz' = [rz EXCEPT !.pc = "while"]
    /\ RunFrame

\* line 124-155: getch returns the key k and the loop acts on it
RunKey(k) ==
    /\ rz.pc = "getch"
    /\ rz' = dispatch(rz, k)
    /\ RunFrame

\* line 156-157: KeyboardInterrupt
RunInterrupt ==
    /\ rz.pc \in {"while", "test", "clear", "redraw", "resizing", "getch", "handle_resize"}
    /\ rz' = [rz EXCEPT !.running = FALSE, !.pc = "exit"]
    /\ RunFrame

\* The statements of the main thread
RunLoop ==
    \/ RunWhile \/ RunTest \/ RunClear \/ RunRedraw \/ RunResized \/ RunIdle
    \/ \E k \in LandingKeys : RunKey(k)

RunNext == RunLoop \/ RunSignal \/ RunInterrupt

\* The main thread keeps executing: getch does not block (nodelay)
SpecRun == RunInit /\ [][RunNext]_vars /\ WF_vars(RunLoop)

\* C37: pressing the hotkey shown for a menu item, exactly as displayed,
\* invokes that item's action and no other item's; each of the six items can
\* be triggered by its own hotkey.
C37_HotkeyInvokesItsItem ==
    (rz.pc # "none" /\ match_exact(rz.key) # 0) =>
        rz.called = [label |-> menu_items[match_exact(rz.key)].label,
                     action |-> menu_items[match_exact(rz.key)].action]

\* C37, side check: a hotkey invokes the first item whose hotkey is the same
\* letter in either case
C37_FirstItemIgnoringCase ==
    (rz.pc # "none" /\ rz.key \notin {"", "Enter"}) =>
        rz.called = (IF rz.key \in {"k", "j", "KEY_UP", "KEY_DOWN", "Esc", "KEY_RESIZE"}
                        \/ match_hotkey(rz.key) = 0
                     THEN NoCall
                     ELSE [label |-> menu_items[match_hotkey(rz.key)].label,
                           action |-> menu_items[match_hotkey(rz.key)].action])

-----------------------------------------------------------------------------
(* Claims about the resize signal and the landing loop *)

-----------------------------------------------------------------------------
(* Claims about tokens that normalize to the empty string *)

\* C38: in core.resolve_tokens a token whose normalized form is empty selects
\* no contact and is reported in missing.
C38_EmptyTokenMissing ==
    (rpc = "done" /\ ~AnyTokenIsAll) =>
        \A k \in DOMAIN tokens :
            norm(tokens[k]) = <<>> =>
                /\ sel[k] = 0
                /\ \E i \in DOMAIN missing : missing[i] = tokens[k]

\* C38, side check: such a token selects the first contact of a roster that
\* has one, and is missing only for the empty roster
C38_EmptyTokenSelectsFirst ==
    (rpc = "done" /\ ~AnyTokenIsAll) =>
        \A k \in DOMAIN tokens :
            norm(tokens[k]) = <<>> => sel[k] = (IF contacts = <<>> THEN 0 ELSE 1)

-----------------------------------------------------------------------------
(* engine/test_send.py: send_with_spinner, the main thread and the reader
   thread statement by statement *)

\* len(SPIN)
SpinFrames == 10

\* What osascript writes and exits with
Stdouts == { <<>>, <<"S","M","S","\n">>, <<"E","R","R","O","R","\n">> }
Stderrs == { <<>>, <<"x","\n">> }
ExitCodes == {0, 1}

\* proc.communicate() has returned and out["done"] is set at once
communicate_sets_done(s) ==
    [s EXCEPT !.reader = "stdout", !.returncode = s.code, !.out.done = TRUE]

\* line 128: so, se = proc.communicate() returns once the process has
\* exited, and proc.returncode is set
communicate(s) == [s EXCEPT !.reader = "stdout", !.returncode = s.code]

\* line 146-150: status, and the test that decides ok
decide(returncode, status) ==
    [ok |-> returncode = 0 /\ status # <<>>
              /\ ~StartsWith(status, <<"E","R","R","O","R">>),
     detail |-> status]

SpinInit ==
    /\ \E so \in Stdouts, se \in Stderrs, code \in ExitCodes :
          sp = [main |-> "call", reader |-> "unstarted", proc |-> "none",
                so |-> so, se |-> se, code |-> code, returncode |-> "None",
                out |-> [done |-> FALSE, stdout |-> <<>>, stderr |-> <<>>],
                i |-> 0, status |-> <<>>, result |-> "None"]
    /\ wr = [pc |-> "none"]
    /\ nm = [pc |-> "none"]
    /\ er = [pc |-> "none"]
    /\ inp = [pc |-> "none"]
    /\ rz = [pc |-> "none"]
    /\ termRows = 24
    /\ termCols = 80
    /\ pk = ClosedPicker
    /\ flow = [pc |-> "none"]
    /\ fz = [pc |-> "none"]
    /\ ed = [pc |-> "none"]
    /\ disk = <<>>
    /\ ov = [pc |-> "none"]
    /\ contacts = <<>>
    /\ tokens = <<>>
    /\ rpc = "idle"
    /\ tokIdx = 0
    /\ chosen = <<>>
    /\ missing = <<>>
    /\ resolved = <<>>
    /\ sel = <<>>

SpinFrame == UNCHANGED <<wr, nm, er, inp, rz, uiVars, resolverVars>>

\* line 123-133: run_osascript, out, and t.start()
SpinStart ==
    /\ sp.main = "call"
    /\ sp' = [sp EXCEPT !.main = "prefix", !.reader = "communicate", !.proc = "running"]
    /\ SpinFrame

\* line 135-137: the first spinner frame is written
SpinPrefix ==
    /\ sp.main = "prefix"
    /\ sp' = [sp EXCEPT !.main = "test"]
    /\ SpinFrame

\* line 139: while not out["done"]
SpinTest ==
    /\ sp.main = "test"
    /\ sp' = [sp EXCEPT !.main = IF sp.out.done THEN "status" ELSE "sleep"]
    /\ SpinFrame

\* line 140-143: sleep, i += 1, the next spinner frame (i is kept modulo
\* len(SPIN), all the frame depends on)
SpinSleep ==
    /\ sp.main = "sleep"
    /\ sp' = [sp EXCEPT !.main = "test", !.i = (sp.i + 1) % SpinFrames]
    /\ SpinFrame

\* line 146-149: status = out["stdout"] or out["stderr"], stripped
SpinStatus ==
    /\ sp.main = "status"
    /\ sp' = [sp EXCEPT !.main = "decide",
                        !.status = StripWs(IF sp.out.stdout # <<>> THEN sp.out.stdout
                                           ELSE sp.out.stderr)]
    /\ SpinFrame

\* line 150-157: proc.returncode is read and (ok, status) returned
SpinDecide ==
    /\ sp.main = "decide"
    /\ sp' = [sp EXCEPT !.main = "returned", !.result = decide(sp.returncode, sp.status)]
    /\ SpinFrame

\* osascript exits
ProcExit ==
    /\ sp.proc = "running"
    /\ sp' = [sp EXCEPT !.proc = "exited"]
    /\ SpinFrame

\* line 128
ReaderCommunicate ==
    /\ sp.reader = "communicate"
    /\ sp.proc = "exited"
    /\ sp' = communicate(sp)
    /\ SpinFrame

\* line 128: communicate raises in the reader thread, which ends
ReaderRaise ==
    /\ sp.reader = "communicate"
    /\ sp.proc = "exited"
    /\ sp' = [sp EXCEPT !.reader = "raised"]
    /\ SpinFrame

\* line 129: out["stdout"] = (so or "").strip()
ReaderStdout ==
    /\ sp.reader = "stdout"
    /\ sp' = [sp EXCEPT !.reader = "stderr", !.out.stdout = StripWs(sp.so)]
    /\ SpinFrame

\* line 130: out["stderr"] = (se or "").strip()
ReaderStderr ==
    /\ sp.reader = "stderr"
    /\ sp' = [sp EXCEPT !.reader = "done", !.out.stderr = StripWs(sp.se)]
    /\ SpinFrame

\* line 131: out["done"] = True
ReaderDone ==
    /\ sp.reader = "done"
    /\ sp' = [sp EXCEPT !.reader = "end", !.out.done = TRUE]
    /\ SpinFrame

SpinNext ==
    \/ SpinStart \/ SpinPrefix \/ SpinTest \/ SpinSleep \/ SpinStatus \/ SpinDecide
    \/ ProcExit \/ ReaderCommunicate \/ ReaderRaise \/ ReaderStdout \/ ReaderStderr
    \/ ReaderDone

SpecSpinner == SpinInit /\ [][SpinNext]_vars

\* The outcome of the delivery process itself
TrueStatus == IF StripWs(sp.so) # <<>> THEN StripWs(sp.so) ELSE StripWs(sp.se)
TrueOutcome ==
    [ok |-> sp.code = 0 /\ TrueStatus # <<>> /\ ~StartsWith(TrueStatus, <<"E","R","R","O","R">>),
     detail |-> TrueStatus]

\* C40: under every interleaving the main thread leaves its loop and decides
\* only after the process has exited and the reader has stored stdout and
\* stderr; what it returns comes from the exit code and the whole output.
C40_DecidesAfterReader ==
    /\ sp.main \in {"status", "decide", "returned"} =>
          /\ sp.proc = "exited"
          /\ sp.returncode = sp.code
          /\ sp.out.stdout = StripWs(sp.so)
          /\ sp.out.stderr = StripWs(sp.se)
    /\ sp.main = "returned" => sp.result = TrueOutcome

\* C40 witness: the spinner turned while the process ran, and success was
\* returned with the output of the process
C40_Witness ==
    /\ sp.main = "returned"
    /\ sp.i >= 2
    /\ sp.result.ok
    /\ sp.result.detail = <<"S","M","S">>

=============================================================================
